---------------------------- MODULE Spec2Model ----------------------------
(***************************************************************************)
(* Cookie Clicker bot: the game snapshot (game_state.py), the decision     *)
(* engine (strategy.py), the click dispatcher (clicker.py) and the three   *)
(* polling loops (main.py).                                                *)
(*                                                                         *)
(* Units.  Time is counted in tenths of a second (time.time() * 10), so    *)
(* that the 0.5 s cooldown is 5 and five minutes are 3000.  The production *)
(* rate (cps) and the catalog's base production are counted in tenths of a *)
(* cookie per second, so that 0.1 cps is 1 and 100.5 cps is 1005.  Stock   *)
(* and prices are whole cookies.  Quotients of floats are kept as exact    *)
(* fractions <<numerator, denominator>>.  Every run starts at time 1000:    *)
(* time.time() is far above the cooldown when the bot starts.              *)
(***************************************************************************)
EXTENDS Integers, Sequences, FiniteSets, TLC

VARIABLES
    now,              \* time.time()
    cookies,          \* GameState.cookies
    cps,              \* GameState.cps
    buildings,        \* GameState.buildings
    upgrades,         \* GameState.upgrades
    cps_history,      \* GameState._cps_history
    last_update,      \* GameState.last_update
    update_count,     \* GameState.update_count
    building_count,   \* GameState.building_count
    reads,            \* what the ScreenReader calls of the latest update() did
    cps_multipliers,  \* Strategy._cps_multipliers
    decision,         \* what the latest get_best_purchase call returned
    decided,          \* get_best_purchase was called on the present snapshot
    last_buy_time,    \* Clicker._last_buy_time
    pointer,          \* where the mouse pointer is
    clicks,           \* the clicks dispatched so far, oldest first
    call,             \* the latest Clicker call: its target, start and outcome
    pc,               \* where main and each loop thread stand
    stop_event,       \* main's threading.Event: TRUE once set
    wake,             \* when each thread's time.sleep / join timeout ends
    iterations,       \* iterations each loop has started
    position,         \* golden_cookie_loop's local variable
    wm,               \* the WindowManager and its find_and_focus call
    query,            \* the last call of a query operation and what it returned
    tooltip_cache     \* the tooltip data cache: building name -> entry

gsvars == <<cookies, cps, buildings, upgrades, cps_history, last_update,
            update_count, building_count, reads>>

stvars == <<cps_multipliers, decision, decided>>

clvars == <<last_buy_time, pointer, clicks, call>>

lpvars == <<pc, stop_event, wake, iterations, position, wm, query,
            tooltip_cache>>

vars == <<now, gsvars, stvars, clvars, lpvars>>

----------------------------------------------------------------------------
(* Helpers on sequences and fractions                                      *)

RECURSIVE SumSeq(_)
SumSeq(s) == IF s = <<>> THEN 0 ELSE Head(s) + SumSeq(Tail(s))

\* python's None for a click position; `not click_pos` is true of it
NoPos == <<>>

----------------------------------------------------------------------------
(* ScreenReader as GameState sees it: each read returns a value or raises  *)

\* outcome of one collaborator call: returned val, raised, or never called
Ret(v)  == [st |-> "ok", val |-> v]
Raised  == [st |-> "raise", val |-> 0]
Skipped == [st |-> "skip", val |-> 0]

\* before the first update(): no read was made
NoReads == [cookie |-> Skipped, cps |-> Skipped, shop |-> Skipped, upg |-> Skipped]

\* ScreenReader.read_shop: one dict per row, in catalog order; the price and
\* the owned count are what OCR made of the row (0 when it failed)
read_shop(names, costs, counts) ==
    [i \in 1..Len(names) |->
        [name       |-> names[i],
         cost       |-> costs[i],
         count      |-> counts[i],
         affordable |-> FALSE,
         click_pos  |-> <<1, i>>]]

\* ScreenReader.read_upgrades: one dict per icon slot, in strip order, with the
\* slot's fixed click position; a reader that leaves a slot without position
\* is covered by populated[i] = FALSE
read_upgrades(populated) ==
    [i \in 1..Len(populated) |->
        [index     |-> i - 1,
         click_pos |-> IF populated[i] THEN <<2, i - 1>> ELSE NoPos]]

----------------------------------------------------------------------------
(* GameState                                                               *)

\* deque(maxlen=10)
HistoryMaxLen == 10

deque_append_drop_newest(h, x) ==
    IF Len(h) >= HistoryMaxLen THEN h ELSE h \o <<x>>

\* deque.append: drops the oldest sample when full
deque_append(h, x) ==
    IF Len(h) >= HistoryMaxLen THEN Tail(h) \o <<x>> ELSE h \o <<x>>

\* the GameState object as a record
GS == [cookies        |-> cookies,
       cps            |-> cps,
       buildings      |-> buildings,
       upgrades       |-> upgrades,
       cps_history    |-> cps_history,
       last_update    |-> last_update,
       update_count   |-> update_count,
       building_count |-> building_count]

GameState_init ==
    [cookies        |-> 0,
     cps            |-> 0,
     buildings      |-> <<>>,
     upgrades       |-> <<>>,
     cps_history    |-> <<>>,
     last_update    |-> 0,
     update_count   |-> 0,
     building_count |-> 0]

_update_cookies_any(g, val) == [g EXCEPT !.cookies = val]

_update_cookies(g, val) ==
    IF val > 0 THEN [g EXCEPT !.cookies = val] ELSE g

_update_cps(g, val, t) ==
    IF val > 0
    THEN [g EXCEPT !.cps = val,
                   !.cps_history = deque_append(@, [t |-> t, cps |-> val])]
    ELSE g

_update_buildings_always(g, shop) == [g EXCEPT !.buildings = shop]

_update_buildings_extend(g, shop) == [g EXCEPT !.buildings = @ \o shop]

_update_buildings(g, shop) ==
    IF shop # <<>> THEN [g EXCEPT !.buildings = shop] ELSE g

_update_upgrades(g, ups) == [g EXCEPT !.upgrades = ups]

_update_affordability_any_cost(g) ==
    [g EXCEPT !.buildings =
        [i \in 1..Len(g.buildings) |->
            [g.buildings[i] EXCEPT !.affordable =
                (g.cookies >= g.buildings[i].cost)]]]

_update_affordability(g) ==
    [g EXCEPT !.buildings =
        [i \in 1..Len(g.buildings) |->
            [g.buildings[i] EXCEPT !.affordable =
                (g.buildings[i].cost > 0 /\ g.cookies >= g.buildings[i].cost)]]]

_update_building_count(g) ==
    [g EXCEPT !.building_count =
        SumSeq([i \in 1..Len(g.buildings) |-> g.buildings[i].count])]

\* the try block of GameState.update at time t: the six steps run in one
\* block, so the first read that raises ends them
TrySteps(g, rd, t) ==
    LET ok1 == rd.cookie.st = "ok"
        ok2 == ok1 /\ rd.cps.st = "ok"
        ok3 == ok2 /\ rd.shop.st = "ok"
        ok4 == ok3 /\ rd.upg.st = "ok"
        g1 == IF ok1 THEN _update_cookies(g, rd.cookie.val) ELSE g
        g2 == IF ok2 THEN _update_cps(g1, rd.cps.val, t) ELSE g1
        g3 == IF ok3 THEN _update_buildings(g2, rd.shop.val) ELSE g2
        g4 == IF ok4 THEN _update_upgrades(g3, rd.upg.val) ELSE g3
        g5 == IF ok4 THEN _update_affordability(g4) ELSE g4
        g6 == IF ok4 THEN _update_building_count(g5) ELSE g5
    IN  g6

\* a read of the script raised inside the try block
TryRaised(rd) ==
    \E f \in {"cookie", "cps", "shop", "upg"} : rd[f].st = "raise"

update_uncaught(g, rd, t) ==
    IF TryRaised(rd) THEN TrySteps(g, rd, t)
    ELSE [TrySteps(g, rd, t) EXCEPT !.last_update = t, !.update_count = @ + 1]

\* GameState.update at time t: `except Exception` takes whatever a read
\* raised, and last_update and update_count are set after the block in
\* every case
update(g, rd, t) ==
    [TrySteps(g, rd, t) EXCEPT !.last_update = t, !.update_count = @ + 1]

\* the variables take the fields of g
SetGS(g) ==
    /\ cookies' = g.cookies
    /\ cps' = g.cps
    /\ buildings' = g.buildings
    /\ upgrades' = g.upgrades
    /\ cps_history' = g.cps_history
    /\ last_update' = g.last_update
    /\ update_count' = g.update_count
    /\ building_count' = g.building_count

\* GameState.__init__
InitGS ==
    /\ cookies = GameState_init.cookies
    /\ cps = GameState_init.cps
    /\ buildings = GameState_init.buildings
    /\ upgrades = GameState_init.upgrades
    /\ cps_history = GameState_init.cps_history
    /\ last_update = GameState_init.last_update
    /\ update_count = GameState_init.update_count
    /\ building_count = GameState_init.building_count

\* the reads of one update(): after a read that raised, the later ones are
\* never called
Scripts(ck, cp, sh, up) ==
    {rd \in [cookie : ck \cup {Raised}, cps : cp \cup {Raised, Skipped},
             shop : sh \cup {Raised, Skipped}, upg : up \cup {Raised, Skipped}] :
        /\ (rd.cps.st = "skip") = (rd.cookie.st # "ok")
        /\ (rd.shop.st = "skip") = (rd.cookie.st # "ok" \/ rd.cps.st # "ok")
        /\ (rd.upg.st = "skip") =
               (rd.cookie.st # "ok" \/ rd.cps.st # "ok" \/ rd.shop.st # "ok")}

----------------------------------------------------------------------------
(* Strategy                                                                *)

\* BUILDING_BASE_CPS in tenths of a cookie per second; the rows after
\* "Tempio" are left out
BUILDING_BASE_CPS ==
    [n \in {"Cursore", "Nonna", "Fattoria", "Miniera", "Fabbrica", "Banca",
            "Tempio"} |->
        CASE n = "Cursore"  -> 1
          [] n = "Nonna"    -> 5
          [] n = "Fattoria" -> 40
          [] n = "Miniera"  -> 100
          [] n = "Fabbrica" -> 400
          [] n = "Banca"    -> 1000
          [] n = "Tempio"   -> 4000]

\* the table without the row "Nonna"
BUILDING_BASE_COST_no_nonna ==
    [n \in {"Cursor", "Grandma", "Farm", "Mine", "Factory", "Bank", "Temple",
            "Cursore", "Fattoria", "Miniera", "Fabbrica", "Banca",
            "Tempio"} |->
        CASE n \in {"Cursor", "Cursore"}   -> 15
          [] n = "Grandma"                 -> 100
          [] n \in {"Farm", "Fattoria"}    -> 1100
          [] n \in {"Mine", "Miniera"}     -> 12000
          [] n \in {"Factory", "Fabbrica"} -> 130000
          [] n \in {"Bank", "Banca"}       -> 1400000
          [] n \in {"Temple", "Tempio"}    -> 20000000]

\* BUILDING_BASE_COST, English and Italian names; the rows after "Temple" and
\* "Tempio" are left out
BUILDING_BASE_COST ==
    [n \in {"Cursor", "Grandma", "Farm", "Mine", "Factory", "Bank", "Temple",
            "Cursore", "Nonna", "Fattoria", "Miniera", "Fabbrica", "Banca",
            "Tempio"} |->
        CASE n \in {"Cursor", "Cursore"}   -> 15
          [] n \in {"Grandma", "Nonna"}    -> 100
          [] n \in {"Farm", "Fattoria"}    -> 1100
          [] n \in {"Mine", "Miniera"}     -> 12000
          [] n \in {"Factory", "Fabbrica"} -> 130000
          [] n \in {"Bank", "Banca"}       -> 1400000
          [] n \in {"Temple", "Tempio"}    -> 20000000]

\* dict.get(key, default)
Get(d, key, default) == IF key \in DOMAIN d THEN d[key] ELSE default

\* Strategy.__init__
Strategy_init == [n \in DOMAIN BUILDING_BASE_CPS |-> 1]

\* x < y for fractions with positive denominators
FracLess(x, y) == x[1] * y[2] < y[1] * x[2]

\* float("inf")
Inf == <<1, 0>>

\* f"Upgrade #{index}"
UpgradeName(index) ==
    <<"Upgrade #0", "Upgrade #1", "Upgrade #2", "Upgrade #3", "Upgrade #4",
      "Upgrade #5", "Upgrade #6", "Upgrade #7">>[index + 1]

\* is_stalling with a falling rate not counted
is_stalling_rising_only(g, threshold_minutes) ==
    IF Len(g.cps_history) < 2 THEN FALSE
    ELSE LET h0 == g.cps_history[1]
             h1 == g.cps_history[Len(g.cps_history)]
         IN  IF h1.t - h0.t < threshold_minutes * 600 THEN FALSE
             ELSE IF h0.cps <= 0 THEN FALSE
             ELSE h1.cps >= h0.cps /\ 100 * (h1.cps - h0.cps) < h0.cps

\* GameState.is_stalling
is_stalling(g, threshold_minutes) ==
    IF Len(g.cps_history) < 2 THEN FALSE
    ELSE LET h0 == g.cps_history[1]
             h1 == g.cps_history[Len(g.cps_history)]
         IN  IF h1.t - h0.t < threshold_minutes * 600 THEN FALSE
             ELSE IF h0.cps <= 0 THEN FALSE
             ELSE 100 * (h1.cps - h0.cps) < h0.cps

\* GameState.get_affordable_buildings
get_affordable_buildings(g) == SelectSeq(g.buildings, LAMBDA b : b.affordable)

\* theoretical_cps of _estimate_global_multiplier: the sum over the rows of
\* count * base production, in tenths
theoretical_cps(g) ==
    SumSeq([i \in 1..Len(g.buildings) |->
        g.buildings[i].count * Get(BUILDING_BASE_CPS, g.buildings[i].name, 0)])

\* the ratio returned as it is, without max(1.0, min(ratio, 10_000.0))
_estimate_global_multiplier_unclamped(g) ==
    IF g.buildings = <<>> \/ g.cps <= 0 THEN <<1, 1>>
    ELSE IF theoretical_cps(g) <= 0 THEN <<1, 1>>
    ELSE <<g.cps, theoretical_cps(g)>>

\* Strategy._estimate_global_multiplier, as a fraction
_estimate_global_multiplier(g) ==
    IF g.buildings = <<>> \/ g.cps <= 0 THEN <<1, 1>>
    ELSE IF theoretical_cps(g) <= 0 THEN <<1, 1>>
    ELSE IF g.cps > 10000 * theoretical_cps(g) THEN <<10000, 1>>
    ELSE IF g.cps < theoretical_cps(g) THEN <<1, 1>>
    ELSE <<g.cps, theoretical_cps(g)>>

\* Strategy._estimate_cps_gain, as a fraction (tenths of a cookie per second)
_estimate_cps_gain(m, building_name, g) ==
    LET base_cps == Get(BUILDING_BASE_CPS, building_name, 0)
    IN  IF base_cps <= 0 THEN <<0, 1>>
        ELSE LET local_mult  == Get(m, building_name, 1)
                 global_mult == _estimate_global_multiplier(g)
             IN  <<base_cps * local_mult * global_mult[1], global_mult[2]>>

\* the last upgrade that has a click position instead of the first
_check_upgrades_last(g) ==
    LET withPos == SelectSeq(g.upgrades, LAMBDA u : u.click_pos # NoPos)
    IN  IF withPos = <<>> THEN <<>>
        ELSE <<[name        |-> UpgradeName(withPos[Len(withPos)].index),
                cost        |-> 0,
                click_pos   |-> withPos[Len(withPos)].click_pos,
                payoff_time |-> <<0, 1>>,
                affordable  |-> FALSE,
                is_upgrade  |-> TRUE]>>

\* Strategy._check_upgrades: the first upgrade that has a click position.
\* Every decision is given the key "affordable" (FALSE where the dict of the
\* code has no such key) so that all decisions are records of one shape.
_check_upgrades(g) ==
    LET withPos == SelectSeq(g.upgrades, LAMBDA u : u.click_pos # NoPos)
    IN  IF withPos = <<>> THEN <<>>
        ELSE <<[name        |-> UpgradeName(withPos[1].index),
                cost        |-> 0,
                click_pos   |-> withPos[1].click_pos,
                payoff_time |-> <<0, 1>>,
                affordable  |-> FALSE,
                is_upgrade  |-> TRUE]>>

\* the candidate dict of one building of the pool (lines 210-228), or nothing
\* when its gain is not positive; the payoff time in seconds is
\* est_cost / (gain / 10)
Candidate(m, building, g) ==
    LET est_cost == Get(BUILDING_BASE_COST, building.name, 0)
        cps_gain == _estimate_cps_gain(m, building.name, g)
    IN  IF cps_gain[1] <= 0 THEN <<>>
        ELSE <<[name        |-> building.name,
                cost        |-> est_cost,
                click_pos   |-> building.click_pos,
                payoff_time |-> IF est_cost > 0
                                THEN <<est_cost * 10 * cps_gain[2], cps_gain[1]>>
                                ELSE <<9999, 1>>,
                affordable  |-> building.affordable,
                is_upgrade  |-> FALSE]>>

RECURSIVE Candidates(_, _, _)
Candidates(m, pool, g) ==
    IF pool = <<>> THEN <<>>
    ELSE Candidate(m, Head(pool), g) \o Candidates(m, Tail(pool), g)

\* list.sort(key=payoff_time): a stable sort, here by insertion
RECURSIVE InsertSorted(_, _)
InsertSorted(c, sorted) ==
    IF sorted = <<>> THEN <<c>>
    ELSE IF FracLess(c.payoff_time, Head(sorted).payoff_time)
         THEN <<c>> \o sorted
         ELSE <<Head(sorted)>> \o InsertSorted(c, Tail(sorted))

SortByPayoff_none(cs) == cs

RECURSIVE SortByPayoff(_)
SortByPayoff(cs) ==
    IF cs = <<>> THEN <<>>
    ELSE InsertSorted(cs[Len(cs)], SortByPayoff(SubSeq(cs, 1, Len(cs) - 1)))

Pool_visible(affordable, visible) == visible

\* pool = affordable if affordable else visible
Pool(affordable, visible) ==
    IF affordable # <<>> THEN affordable ELSE visible

\* Strategy._best_building
_best_building(m, g) ==
    LET affordable == SelectSeq(g.buildings, LAMBDA b : b.affordable)
        visible    == g.buildings
    IN  IF affordable = <<>> /\ visible = <<>> THEN <<>>
        ELSE LET pool       == Pool(affordable, visible)
                 candidates == Candidates(m, pool, g)
             IN  IF candidates = <<>>
                 THEN IF affordable # <<>>
                      THEN <<[name        |-> affordable[1].name,
                              cost        |-> 0,
                              click_pos   |-> affordable[1].click_pos,
                              payoff_time |-> <<9999, 1>>,
                              affordable  |-> FALSE,
                              is_upgrade  |-> FALSE]>>
                      ELSE <<>>
                 ELSE <<SortByPayoff(candidates)[1]>>

MinByCost_first(bs) == bs[1]

\* min(affordable, key=cost): the first building of the least cost
RECURSIVE MinByCost(_)
MinByCost(bs) ==
    IF Len(bs) = 1 THEN bs[1]
    ELSE LET rest == MinByCost(Tail(bs))
         IN  IF rest.cost < Head(bs).cost THEN rest ELSE Head(bs)

\* Strategy._cheapest_affordable
_cheapest_affordable(g) ==
    LET affordable == get_affordable_buildings(g)
    IN  IF affordable = <<>> THEN <<>>
        ELSE LET cheapest == MinByCost(affordable)
             IN  <<[name        |-> cheapest.name,
                    cost        |-> cheapest.cost,
                    click_pos   |-> cheapest.click_pos,
                    payoff_time |-> Inf,
                    affordable  |-> FALSE,
                    is_upgrade  |-> FALSE]>>

\* Strategy.get_best_purchase: <<>> is None, <<d>> the decision d
get_best_purchase(m, g) ==
    IF g.buildings = <<>> THEN <<>>
    ELSE LET upgrade_decision == _check_upgrades(g)
         IN  IF upgrade_decision # <<>> THEN upgrade_decision
             ELSE LET best == _best_building(m, g)
                  IN  IF is_stalling(g, 5) /\ _cheapest_affordable(g) # <<>>
                      THEN _cheapest_affordable(g)
                      ELSE best

\* Strategy.update_multipliers
update_multipliers(m, building_name, new_multiplier) ==
    IF building_name \in DOMAIN m
    THEN [m EXCEPT ![building_name] = new_multiplier]
    ELSE m

InitStrategy ==
    /\ cps_multipliers = Strategy_init
    /\ decision = <<>>
    /\ decided = FALSE

----------------------------------------------------------------------------
(* Clicker                                                                 *)

\* self.buy_cooldown = 0.5, in tenths of a second
buy_cooldown == 5

\* the Clicker object with the pointer device it drives
CL == [last_buy_time |-> last_buy_time, pointer |-> pointer, clicks |-> clicks]

\* Clicker.__init__; the pointer rests somewhere on the screen
Clicker_init ==
    [last_buy_time |-> <<>>, pointer |-> <<500, 500>>, clicks |-> <<>>]

\* pyautogui.moveTo(x, y) that returned
moveTo(c, pos) == [c EXCEPT !.pointer = pos]

\* pyautogui.click() that returned: a click where the pointer is, at time t
click(c, by, name, t) ==
    [c EXCEPT !.clicks = Append(@, [by   |-> by,
                                    name |-> name,
                                    pos  |-> c.pointer,
                                    t    |-> t])]

CooldownActive_never(t, last) == FALSE

\* now - last < self.buy_cooldown
CooldownActive(t, last) == t - last < buy_cooldown

\* self._last_buy_time[name] = time.time()
SetLastBuy(c, name, t) ==
    [c EXCEPT !.last_buy_time =
        [n \in DOMAIN c.last_buy_time \cup {name} |->
            IF n = name THEN t ELSE c.last_buy_time[n]]]

\* click_buy with a rejected call restarting the cooldown of its target
click_buy_restarts(c, d, e, t) ==
    IF d.click_pos = NoPos
    THEN [c |-> c, result |-> "no_pos", raised |-> "none", end |-> t]
    ELSE IF CooldownActive(t, Get(c.last_buy_time, d.name, 0))
    THEN [c |-> SetLastBuy(c, d.name, t), result |-> "cooldown",
          raised |-> "none", end |-> t]
    ELSE IF e.mv # "ok"
    THEN [c |-> c, result |-> e.mv, raised |-> e.mv, end |-> t]
    ELSE LET c1 == moveTo(c, <<d.click_pos[1] + e.jitter[1],
                               d.click_pos[2] + e.jitter[2]>>)
         IN  IF e.ck # "ok"
             THEN [c |-> c1, result |-> e.ck, raised |-> e.ck,
                   end |-> t + e.dm]
             ELSE [c      |-> SetLastBuy(click(c1, "click_buy", d.name, t + e.dm),
                                         d.name, t + e.dm + e.ds),
                   result |-> "clicked",
                   raised |-> "none",
                   end    |-> t + e.dm + e.ds]

\* Clicker.click_buy(decision) called at time t.  e holds what the call meets:
\* the jitter drawn, the outcome of moveTo and of click ("ok", "failsafe" for
\* FailSafeException, "error" for any other exception), the time the move
\* takes (dm) and the time from the click to the time.time() that follows it
\* (ds).  The result names how the call ended ("failsafe" is re-raised to
\* the caller, "error" is logged and the call returns); raised names what
\* pyautogui raised in the call.
click_buy(c, d, e, t) ==
    IF d.click_pos = NoPos
    THEN [c |-> c, result |-> "no_pos", raised |-> "none", end |-> t]
    ELSE IF CooldownActive(t, Get(c.last_buy_time, d.name, 0))
    THEN [c |-> c, result |-> "cooldown", raised |-> "none", end |-> t]
    ELSE IF e.mv # "ok"
    THEN [c |-> c, result |-> e.mv, raised |-> e.mv, end |-> t]
    ELSE LET c1 == moveTo(c, <<d.click_pos[1] + e.jitter[1],
                               d.click_pos[2] + e.jitter[2]>>)
         IN  IF e.ck # "ok"
             THEN [c |-> c1, result |-> e.ck, raised |-> e.ck,
                   end |-> t + e.dm]
             ELSE [c      |-> SetLastBuy(click(c1, "click_buy", d.name, t + e.dm),
                                         d.name, t + e.dm + e.ds),
                   result |-> "clicked",
                   raised |-> "none",
                   end    |-> t + e.dm + e.ds]

\* f"upgrade_{index}"
UpgradeKey(index) ==
    <<"upgrade_0", "upgrade_1", "upgrade_2", "upgrade_3", "upgrade_4",
      "upgrade_5", "upgrade_6", "upgrade_7">>[index + 1]

\* the variant that writes the timestamp before pyautogui.click()
click_upgrade_stamps_first(c, u, e, t) ==
    LET name == UpgradeKey(u.index)
    IN  IF u.click_pos = NoPos
        THEN [c |-> c, result |-> "no_pos", raised |-> "none", end |-> t]
        ELSE IF CooldownActive(t, Get(c.last_buy_time, name, 0))
        THEN [c |-> c, result |-> "cooldown", raised |-> "none", end |-> t]
        ELSE IF e.mv # "ok"
        THEN [c |-> c, result |-> e.mv, raised |-> e.mv, end |-> t]
        ELSE LET c1 == SetLastBuy(moveTo(c, u.click_pos), name, t + e.dm)
             IN  IF e.ck # "ok"
                 THEN [c |-> c1, result |-> e.ck, raised |-> e.ck,
                       end |-> t + e.dm]
                 ELSE [c      |-> click(c1, "click_upgrade", name, t + e.dm),
                       result |-> "clicked",
                       raised |-> "none",
                       end    |-> t + e.dm]

\* Clicker.click_upgrade(upgrade) called at time t
click_upgrade(c, u, e, t) ==
    LET name == UpgradeKey(u.index)
    IN  IF u.click_pos = NoPos
        THEN [c |-> c, result |-> "no_pos", raised |-> "none", end |-> t]
        ELSE IF CooldownActive(t, Get(c.last_buy_time, name, 0))
        THEN [c |-> c, result |-> "cooldown", raised |-> "none", end |-> t]
        ELSE IF e.mv # "ok"
        THEN [c |-> c, result |-> e.mv, raised |-> e.mv, end |-> t]
        ELSE LET c1 == moveTo(c, u.click_pos)
             IN  IF e.ck # "ok"
                 THEN [c |-> c1, result |-> e.ck, raised |-> e.ck,
                       end |-> t + e.dm]
                 ELSE [c      |-> SetLastBuy(click(c1, "click_upgrade", name,
                                                   t + e.dm),
                                             name, t + e.dm),
                       result |-> "clicked",
                       raised |-> "none",
                       end    |-> t + e.dm]

\* Clicker.click_at(position) called at time t
click_at(c, pos, e, t) ==
    IF e.mv # "ok"
    THEN [c |-> c, result |-> e.mv, raised |-> e.mv, end |-> t]
    ELSE LET c1 == moveTo(c, pos)
         IN  IF e.ck # "ok"
             THEN [c |-> c1, result |-> e.ck, raised |-> e.ck,
                   end |-> t + e.dm]
             ELSE [c      |-> click(c1, "click_at", "", t + e.dm),
                   result |-> "clicked",
                   raised |-> "none",
                   end    |-> t + e.dm]

\* Clicker._cookie_pos for a 1456x800 window at the screen's origin
_cookie_pos == <<215, 430>>

\* Clicker.click_main_cookie() called at time t, _cookie_pos being set:
\* pyautogui.click(x, y) moves and clicks
click_main_cookie(c, e, t) ==
    IF e.mv # "ok"
    THEN [c |-> c, result |-> e.mv, raised |-> e.mv, end |-> t]
    ELSE [c      |-> click(moveTo(c, <<_cookie_pos[1] + e.jitter[1],
                                       _cookie_pos[2] + e.jitter[2]>>),
                           "click_main_cookie", "", t + e.dm),
          result |-> "clicked",
          raised |-> "none",
          end    |-> t + e.dm]

\* (rect.right - 20, rect.bottom - 20) for the same window
move_away_pos == <<1436, 780>>

\* Clicker.move_away() called at time t: `except Exception: pass` takes
\* whatever pyautogui.moveTo raised, FailSafeException included
move_away(c, e, t) ==
    IF e.mv # "ok"
    THEN [c |-> c, result |-> "returned", raised |-> e.mv, end |-> t]
    ELSE [c |-> moveTo(c, move_away_pos), result |-> "moved",
          raised |-> "none", end |-> t + e.dm]

\* TooltipReader._move_mouse(x, y) called at time t: `except Exception`
\* logs whatever pyautogui.moveTo raised
_move_mouse(c, pos, e, t) ==
    IF e.mv # "ok"
    THEN [c |-> c, result |-> "returned", raised |-> e.mv, end |-> t]
    ELSE [c |-> moveTo(c, pos), result |-> "moved",
          raised |-> "none", end |-> t + e.dm]

\* the variables take the fields of c
SetCL(c) ==
    /\ last_buy_time' = c.last_buy_time
    /\ pointer' = c.pointer
    /\ clicks' = c.clicks

NoCall == [op |-> "none", name |-> "", start |-> 0, result |-> "",
           raised |-> "none"]

InitClicker ==
    /\ last_buy_time = Clicker_init.last_buy_time
    /\ pointer = Clicker_init.pointer
    /\ clicks = Clicker_init.clicks
    /\ call = NoCall

\* what a pyautogui call can do
Outcomes == {"ok", "failsafe", "error"}

----------------------------------------------------------------------------
(* main.py: the threads                                                    *)

Loops == {"cookie", "golden", "buy"}

Threads == Loops \cup {"main"}

\* WindowManager.__init__, and no find_and_focus call made yet
WindowManager_init ==
    [_window |-> FALSE, rect |-> FALSE, caller |-> "none", retries |-> 0,
     attempt |-> 0, outcomes |-> <<>>, result |-> "none"]

\* the tooltip data cache before the first refresh: a dict without keys
EmptyCache == <<>>

\* no query operation called yet; a call's arguments and its return value
\* are kept as tuples
NoQuery == [op |-> "none", arg |-> <<>>, result |-> <<>>]

\* main before threading.Event() and the Thread objects exist
InitLoops ==
    /\ pc = [t \in Threads |-> IF t = "main" THEN "init" ELSE "unstarted"]
    /\ stop_event = FALSE
    /\ wake = [t \in Threads |-> 0]
    /\ iterations = [l \in Loops |-> 0]
    /\ position = NoPos
    /\ wm = WindowManager_init
    /\ query = NoQuery
    /\ tooltip_cache = EmptyCache

----------------------------------------------------------------------------
(* Specification SpecClicker: any sequence of click_buy calls, with time   *)
(* passing between them                                                    *)

MaxClock == 8

\* the decisions handed to click_buy (the fields it reads)
ClickerDecisions ==
    {[name |-> n, click_pos |-> p] :
        n \in {"Cursore", "Nonna"}, p \in {<<1, 1>>, NoPos}}

ClickerEnvs ==
    [jitter : {<<0, 0>>, <<5, -3>>}, mv : Outcomes, ck : Outcomes,
     dm : {1}, ds : {0, 1}]

InitClickerSpec ==
    /\ now = 1000
    /\ InitGS
    /\ reads = NoReads
    /\ InitStrategy
    /\ InitClicker
    /\ InitLoops

\* clicker.click_buy(d)
ClickBuy(d, e) ==
    LET r == click_buy(CL, d, e, now)
    IN  /\ r.end <= 1000 + MaxClock
        /\ SetCL(r.c)
        /\ call' = [op |-> "click_buy", name |-> d.name, start |-> now,
                    result |-> r.result, raised |-> r.raised]
        /\ now' = r.end
        /\ UNCHANGED <<gsvars, stvars, lpvars>>

\* time passes between two calls
Tick ==
    /\ now < 1000 + MaxClock
    /\ now' = now + 1
    /\ UNCHANGED <<gsvars, stvars, clvars, lpvars>>

NextClicker ==
    \/ \E d \in ClickerDecisions, e \in ClickerEnvs : ClickBuy(d, e)
    \/ Tick

SpecClicker == InitClickerSpec /\ [][NextClicker]_vars

\* C4: a click_buy call for target N that starts less than buy_cooldown after
\* a click was dispatched for N moves and clicks nothing.
C4_Cooldown ==
    [][\A k \in 1..Len(clicks) :
        (/\ call'.op = "click_buy" /\ call' # call
         /\ call'.name = clicks[k].name
         /\ clicks[k].by = "click_buy"
         /\ call'.start - clicks[k].t < buy_cooldown)
        => (clicks' = clicks /\ pointer' = pointer
            /\ last_buy_time' = last_buy_time)]_vars

\* a second call for the same target, less than 0.5 s after its click, was
\* dropped by the cooldown, and one click stands for the pair
C4_Witness ==
    /\ call.op = "click_buy" /\ call.result = "cooldown"
    /\ Len(SelectSeq(clicks, LAMBDA k : k.name = call.name)) = 1
    /\ \E k \in 1..Len(clicks) :
          /\ clicks[k].name = call.name
          /\ call.start - clicks[k].t < buy_cooldown


----------------------------------------------------------------------------
(* Specification SpecPointer: any sequence of calls of the operations that *)
(* drive the pointer (Clicker's and TooltipReader._move_mouse), with       *)
(* click_buy given the upgrade decisions Strategy makes                    *)

MaxPointerClock == 3

\* the upgrade slots as read_upgrades returns them
PointerUpgrades == {read_upgrades(<<TRUE, TRUE>>)[i] : i \in 1..2}

\* the decisions _check_upgrades makes of them
PointerDecisions ==
    {_check_upgrades([GameState_init EXCEPT !.upgrades = <<u>>])[1] :
        u \in PointerUpgrades}

PointerEnvs ==
    [jitter : {<<5, -3>>}, mv : Outcomes, ck : Outcomes, dm : {1}, ds : {0}]

InitPointer ==
    /\ now = 1000
    /\ InitGS
    /\ reads = NoReads
    /\ InitStrategy
    /\ InitClicker
    /\ InitLoops

\* the call op(...) on target name ends as r says
PointerCall(op, name, r) ==
    /\ r.end <= 1000 + MaxPointerClock
    /\ SetCL(r.c)
    /\ call' = [op |-> op, name |-> name, start |-> now,
                result |-> r.result, raised |-> r.raised]
    /\ now' = r.end
    /\ UNCHANGED <<gsvars, stvars, lpvars>>

PointerClickBuy(d, e) ==
    PointerCall("click_buy", d.name, click_buy(CL, d, e, now))

PointerClickUpgrade(u, e) ==
    PointerCall("click_upgrade", UpgradeKey(u.index),
                click_upgrade(CL, u, e, now))

PointerClickAt(pos, e) ==
    PointerCall("click_at", "", click_at(CL, pos, e, now))

PointerClickMainCookie(e) ==
    PointerCall("click_main_cookie", "", click_main_cookie(CL, e, now))

PointerMoveAway(e) ==
    PointerCall("move_away", "", move_away(CL, e, now))

PointerMoveMouse(pos, e) ==
    PointerCall("_move_mouse", "", _move_mouse(CL, pos, e, now))

PointerTick ==
    /\ now < 1000 + MaxPointerClock
    /\ now' = now + 1
    /\ UNCHANGED <<gsvars, stvars, clvars, lpvars>>

NextPointer ==
    \/ \E d \in PointerDecisions, e \in PointerEnvs : PointerClickBuy(d, e)
    \/ \E u \in PointerUpgrades, e \in PointerEnvs : PointerClickUpgrade(u, e)
    \/ \E e \in PointerEnvs : PointerClickAt(<<700, 300>>, e)
    \/ \E e \in PointerEnvs : PointerClickMainCookie(e)
    \/ \E e \in PointerEnvs : PointerMoveAway(e)
    \/ \E e \in PointerEnvs : PointerMoveMouse(<<900, 120>>, e)
    \/ PointerTick

SpecPointer == InitPointer /\ [][NextPointer]_vars

\* C16: whenever the pointer provider raises the failsafe condition inside
\* one of the operations that move or click the pointer, the operation lets
\* it propagate to its caller.
C16_FailsafePropagates ==
    call.raised = "failsafe" => call.result = "failsafe"

\* C33: a click_buy or click_upgrade call rejected by the cooldown moves
\* the pointer nowhere, clicks nothing and leaves every last-click
\* timestamp as it was; and no click comes later from it: a click is only
\* ever added by the call that is running, and that call was not rejected.
C33_DroppedNotQueued ==
    [][/\ (call'.op \in {"click_buy", "click_upgrade"}
            /\ call'.result = "cooldown")
          => (clicks' = clicks /\ pointer' = pointer
              /\ last_buy_time' = last_buy_time)
       /\ clicks' # clicks
          => (/\ Len(clicks') = Len(clicks) + 1
              /\ SubSeq(clicks', 1, Len(clicks)) = clicks
              /\ call'.result = "clicked"
              /\ clicks'[Len(clicks')].by = call'.op
              /\ clicks'[Len(clicks')].t >= call'.start)]_vars

\* after clicks by click_buy and by click_upgrade, a click_upgrade call on
\* the slot just clicked was rejected by the cooldown
C33_Witness ==
    /\ call.op = "click_upgrade"
    /\ call.result = "cooldown"
    /\ \E i \in 1..Len(clicks), j \in 1..Len(clicks) :
          /\ clicks[i].by = "click_buy"
          /\ clicks[j].by = "click_upgrade"
          /\ clicks[j].name = call.name
          /\ call.start - clicks[j].t < buy_cooldown

\* the call is one of the two purchase paths
PurchaseCall(c) == c.op \in {"click_buy", "click_upgrade"}

\* C38: a cooldown timestamp is written only by a click_buy or
\* click_upgrade call whose moveTo and click both returned, and only for
\* that call's target; a call in which pyautogui raised an error other than
\* the emergency stop returns with every timestamp unchanged and no click
\* made, and the next call for the same target is not rejected by the
\* cooldown
C38_CooldownOnDispatch ==
    [][/\ last_buy_time' # last_buy_time
            => /\ PurchaseCall(call')
               /\ call'.result = "clicked"
               /\ clicks' = Append(clicks, clicks'[Len(clicks')])
               /\ clicks'[Len(clicks')].by = call'.op
               /\ clicks'[Len(clicks')].name = call'.name
               /\ DOMAIN last_buy_time' = DOMAIN last_buy_time \cup {call'.name}
               /\ \A n \in DOMAIN last_buy_time \ {call'.name} :
                      last_buy_time'[n] = last_buy_time[n]
       /\ (PurchaseCall(call') /\ call'.raised = "error")
            => /\ call'.result = "error"
               /\ last_buy_time' = last_buy_time
               /\ clicks' = clicks
       /\ (PurchaseCall(call) /\ call.raised = "error"
              /\ call'.op = call.op /\ call'.name = call.name)
            => call'.result # "cooldown"]_vars

\* with another target's timestamp in place, a click_upgrade call moved the
\* pointer onto its slot, pyautogui.click() raised an error, and the slot
\* has no timestamp
C38_Witness ==
    /\ call.op = "click_upgrade"
    /\ call.raised = "error"
    /\ \E u \in PointerUpgrades :
          UpgradeKey(u.index) = call.name /\ pointer = u.click_pos
    /\ call.name \notin DOMAIN last_buy_time
    /\ DOMAIN last_buy_time # {}

\* the upgrade slot a click went to, by the name the click was made under
SlotOfClick(k) ==
    CHOOSE u \in PointerUpgrades :
        k.name \in {UpgradeName(u.index), UpgradeKey(u.index)}

\* the clicks dispatched on upgrade slots, by click_buy or click_upgrade
UpgradeClicks ==
    {i \in 1..Len(clicks) : clicks[i].by \in {"click_buy", "click_upgrade"}}

\* C19: any two clicks dispatched on the same upgrade slot, by click_buy with
\* Strategy's decision for the slot or by click_upgrade, are at least
\* buy_cooldown apart.
C19_UpgradeCooldownShared ==
    \A i \in UpgradeClicks, j \in UpgradeClicks :
        (i < j /\ SlotOfClick(clicks[i]) = SlotOfClick(clicks[j]))
            => clicks[j].t - clicks[i].t >= buy_cooldown

----------------------------------------------------------------------------
(* Specification SpecState: any sequence of GameState.update() calls       *)

MaxUpdates == 3

StateCookieReads == {Ret(0), Ret(50), Ret(200)}
StateCpsReads    == {Ret(0), Ret(1000), Ret(1005)}
StateShopReads   ==
    {Ret(<<>>)} \cup
    {Ret(read_shop(<<"Cursore", "Nonna">>, <<c1, c2>>, <<1, 0>>)) :
        c1 \in {0, 10}, c2 \in {0, 100}}
StateUpgReads    == {Ret(read_upgrades(<<>>)), Ret(read_upgrades(<<TRUE>>))}
StateScripts     ==
    Scripts(StateCookieReads, StateCpsReads, StateShopReads, StateUpgReads)

InitState ==
    /\ now = 1000
    /\ InitGS
    /\ reads = NoReads
    /\ InitStrategy
    /\ InitClicker
    /\ InitLoops

Update(rd, dt) ==
    /\ update_count < MaxUpdates
    /\ now' = now + dt
    /\ SetGS(update(GS, rd, now + dt))
    /\ reads' = rd

NextState ==
    \E rd \in StateScripts : Update(rd, 20) /\ UNCHANGED <<stvars, clvars, lpvars>>

SpecState == InitState /\ [][NextState]_vars

\* an update() call has just returned
UpdateStep == update_count' = update_count + 1

\* the rows of a building list without the derived affordable flag
Rows(bs) == [i \in 1..Len(bs) |-> [bs[i] EXCEPT !.affordable = FALSE]]

\* C1: last-known-good stock and rate.  In every update() in which
\* read_cookie_count returns 0 while cookies = X > 0, cookies is still X
\* afterwards; likewise cps when read_cps returns 0.
C1_LastKnownGood ==
    [][UpdateStep =>
        /\ (reads'.cookie = Ret(0) /\ cookies > 0 => cookies' = cookies)
        /\ (reads'.cps = Ret(0) /\ cps > 0 => cps' = cps)]_vars

\* a good stock and a good rate have survived an update that read 0 for both
C1_Witness ==
    /\ update_count >= 2
    /\ reads.cookie = Ret(0) /\ cookies > 0
    /\ reads.cps = Ret(0) /\ cps > 0

\* C10 as stated: a building whose cost is C > 0 in the snapshot keeps cost C
\* through an update() whose shop read yields cost 0 for its row.
C10_CostSurvivesZeroRead ==
    [][\A i \in 1..Len(buildings) :
        (/\ UpdateStep
         /\ buildings[i].cost > 0
         /\ reads'.shop.st = "ok"
         /\ \E j \in 1..Len(reads'.shop.val) :
               /\ reads'.shop.val[j].name = buildings[i].name
               /\ reads'.shop.val[j].cost = 0)
        => \E k \in 1..Len(buildings') :
               /\ buildings'[k].name = buildings[i].name
               /\ buildings'[k].cost = buildings[i].cost]_vars

\* C10 amended: the building list is kept or replaced as a whole.  An
\* update() whose shop read returns a non-empty list leaves exactly the rows
\* read (a row read with cost 0 has cost 0 afterwards); one whose shop read
\* returns an empty list, raises or is not reached leaves every row's name,
\* cost and count as they were.
C10_WholesaleReplace ==
    [][UpdateStep =>
        Rows(buildings') =
            IF reads'.shop.st = "ok" /\ reads'.shop.val # <<>>
            THEN Rows(reads'.shop.val)
            ELSE Rows(buildings)]_vars

\* a known cost has survived an update whose shop read returned the empty list
C10_Witness ==
    /\ reads.shop.st = "ok" /\ reads.shop.val = <<>>
    /\ \E i \in 1..Len(buildings) : buildings[i].cost > 0

\* C11: after every update(), one in which a read raised included, every
\* building is flagged affordable exactly when cookies >= its cost.  Stated
\* here for the buildings of positive cost.
C11_AffordableDerived ==
    update_count > 0 =>
        \A i \in 1..Len(buildings) :
            buildings[i].cost > 0 =>
                (buildings[i].affordable = (cookies >= buildings[i].cost))

\* C12: in every update(), a read that raised does not keep the later reads
\* from being made: no read of the latest update() was left out.
C12_IndependentSteps ==
    update_count > 0 =>
        \A f \in {"cps", "shop", "upg"} : reads[f].st # "skip"

\* C13: update() returns normally whatever reads raise: the statements after
\* its try block are reached in every call, so update_count grows by exactly
\* one and last_update is the time of the call.
C13_NeverRaises ==
    [][now' # now =>
        /\ update_count' = update_count + 1
        /\ last_update' = now']_vars

\* the second update(), whose upgrade read raised, has returned
C13_Witness ==
    /\ update_count = 2 /\ last_update = now
    /\ reads.upg.st = "raise"
    /\ cookies = 0 /\ buildings # <<>>

\* the fields C14 compares
Snapshot(g) ==
    [cookies |-> g.cookies, cps |-> g.cps, buildings |-> g.buildings,
     upgrades |-> g.upgrades]

\* an update() call is made with the readings of the call before it
SameReadingsAgain == now' # now /\ update_count > 0 /\ reads' = reads

\* C14 as stated: two consecutive update() calls with the same readings
\* leave cookies, cps, buildings, upgrades and the trend history as a single
\* such call does.
C14_Idempotent ==
    [][SameReadingsAgain =>
        /\ Snapshot(GS') = Snapshot(GS)
        /\ cps_history' = cps_history]_vars

\* C14 amended: the second call leaves cookies, cps, buildings (with their
\* affordable flags), upgrades and building_count as the first did; the
\* trend history is not idempotent: it takes one more sample from the second
\* call exactly when the rate read is positive, and last_update and
\* update_count advance with every call.
C14_IdempotentButHistory ==
    [][SameReadingsAgain =>
        /\ Snapshot(GS') = Snapshot(GS)
        /\ building_count' = building_count
        /\ cps_history' =
               IF reads.cps.st = "ok" /\ reads.cps.val > 0
               THEN deque_append(cps_history,
                                 [t |-> now', cps |-> reads.cps.val])
               ELSE cps_history
        /\ update_count' = update_count + 1
        /\ last_update' = now']_vars

\* two update() calls with the same readings were made from the initial
\* snapshot: the fields agree with those of one call, the history has two
\* samples
C14_Witness ==
    /\ update_count = 2
    /\ \E rd \in StateScripts :
          /\ rd.upg.st = "ok" /\ rd.cookie.val > 0 /\ rd.shop.val # <<>>
          /\ reads = rd
          /\ GS = update(update(GameState_init, rd, 1020), rd, 1040)
          /\ Snapshot(GS) = Snapshot(update(GameState_init, rd, 1020))
          /\ Len(cps_history) = 2

----------------------------------------------------------------------------
(* Specification SpecTrend: update() calls, two seconds apart, often enough *)
(* to fill the trend history and go beyond it                              *)

MaxTrendUpdates == 11

\* the rate is read as 0 (illegible) or as 100.0 and 100.5 by turns, or a
\* read raises
TrendScripts ==
    Scripts({Ret(200)}, {Ret(0), Ret(1000 + 5 * (update_count % 2))},
            {Ret(<<>>)}, {Ret(read_upgrades(<<>>))})

InitTrend ==
    /\ now = 1000
    /\ InitGS
    /\ reads = NoReads
    /\ InitStrategy
    /\ InitClicker
    /\ InitLoops

TrendUpdate(rd) ==
    /\ update_count < MaxTrendUpdates
    /\ now' = now + 20
    /\ SetGS(update(GS, rd, now + 20))
    /\ reads' = rd
    /\ UNCHANGED <<stvars, clvars, lpvars>>

NextTrend == \E rd \in TrendScripts : TrendUpdate(rd)

SpecTrend == InitTrend /\ [][NextTrend]_vars

\* the latest update() read a positive rate
RatePositive(rd) == rd.cps.st = "ok" /\ rd.cps.val > 0

\* C20: after every update() the history holds at most 10 samples, each of
\* a positive rate, with timestamps in non-decreasing order; the update
\* appended a sample exactly when its rate read returned a positive value,
\* and when the history was full the oldest sample is the one it dropped.
C20_BoundedTrend ==
    [][now' # now =>
        /\ Len(cps_history') <= 10
        /\ \A i \in 1..Len(cps_history') : cps_history'[i].cps > 0
        /\ \A i \in 1..Len(cps_history'), j \in 1..Len(cps_history') :
               i < j => cps_history'[i].t <= cps_history'[j].t
        /\ cps_history' =
               IF RatePositive(reads')
               THEN (IF Len(cps_history) = 10 THEN Tail(cps_history)
                                              ELSE cps_history)
                    \o <<[t |-> now', cps |-> reads'.cps.val]>>
               ELSE cps_history]_vars

\* the history is full and a further update() with a positive rate drops its
\* oldest sample
C20_Witness ==
    /\ Len(cps_history) = 10
    /\ update_count < MaxTrendUpdates
    /\ \E rd \in TrendScripts :
          /\ RatePositive(rd)
          /\ update(GS, rd, now + 20).cps_history =
                 Tail(cps_history) \o <<[t |-> now + 20, cps |-> rd.cps.val]>>

----------------------------------------------------------------------------
(* Specification SpecStall: update() calls seconds or minutes apart, with  *)
(* rates that rise, stay or fall, and is_stalling(threshold) asked between *)

MaxStallUpdates == 3

\* the rate is read as 0 (illegible), 90.0, 100.0, 100.5 or 101.0
StallScripts ==
    Scripts({Ret(200)},
            {Ret(0), Ret(900), Ret(1000), Ret(1005), Ret(1010)},
            {Ret(<<>>)}, {Ret(read_upgrades(<<>>))})

\* the time between two update() calls: 2 s, 4 min 58 s, 5 min
StallSteps == {20, 2980, 3000}

\* threshold_minutes: the default 5.0, and 1
StallThresholds == {1, 5}

InitStall ==
    /\ now = 1000
    /\ InitGS
    /\ reads = NoReads
    /\ InitStrategy
    /\ InitClicker
    /\ InitLoops

StallUpdate(rd, dt) ==
    /\ update_count < MaxStallUpdates
    /\ now' = now + dt
    /\ SetGS(update(GS, rd, now + dt))
    /\ reads' = rd
    /\ UNCHANGED <<stvars, clvars, lpvars>>

\* game_state.is_stalling(threshold_minutes)
IsStalling(threshold_minutes) ==
    /\ query' = [op |-> "is_stalling", arg |-> <<threshold_minutes>>,
                 result |-> <<is_stalling(GS, threshold_minutes)>>]
    /\ UNCHANGED <<now, gsvars, stvars, clvars, pc, stop_event, wake,
                   iterations, position, wm,
                   tooltip_cache>>

NextStall ==
    \/ \E rd \in StallScripts, dt \in StallSteps : StallUpdate(rd, dt)
    \/ \E th \in StallThresholds : IsStalling(th)

SpecStall == InitStall /\ [][NextStall]_vars

\* the oldest and the newest sample of the trend history
Oldest == cps_history[1]
Newest == cps_history[Len(cps_history)]

\* C21: is_stalling(threshold) returns true exactly when the history has at
\* least two samples, the newest is at least threshold minutes after the
\* oldest, and (newest rate - oldest rate) / oldest rate < 1/100.
C21_StallingPredicate ==
    [][(query'.op = "is_stalling" /\ gsvars' = gsvars)
        => (query'.result[1]
              <=> /\ Len(cps_history) >= 2
                  /\ Newest.t - Oldest.t >= query'.arg[1] * 600
                  /\ FracLess(<<Newest.cps - Oldest.cps, Oldest.cps>>,
                              <<1, 100>>))]_vars

\* is_stalling() with the default threshold returned true of a history
\* whose rate fell over five minutes or more
C21_Witness ==
    /\ query.op = "is_stalling"
    /\ query.arg = <<5>>
    /\ query.result = <<TRUE>>
    /\ is_stalling(GS, 5)
    /\ Len(cps_history) >= 2
    /\ Newest.cps < Oldest.cps

----------------------------------------------------------------------------
(* Specification SpecMultiplier: update() calls that read any rate, from 0 *)
(* to very large, and any counts of known and unknown buildings, with      *)
(* Strategy._estimate_global_multiplier asked between them                 *)

MaxMultUpdates == 2

\* the rows read: two catalog names and a name BUILDING_BASE_CPS does not
\* hold, owned counts 0 or more
MultShopReads ==
    {Ret(<<>>)} \cup
    {Ret(read_shop(<<"Cursore", "Nonna", "Cursor">>, <<15, 100, 15>>,
                   <<n1, n2, n3>>)) :
        n1 \in {0, 2}, n2 \in {0, 1}, n3 \in {0, 3}}

\* the rate read: 0, 0.5, 0.7, 100.0, 7000.0, 7000.1 and 10^8
MultScripts ==
    Scripts({Ret(200)},
            {Ret(0), Ret(5), Ret(7), Ret(1000), Ret(70000), Ret(70001),
             Ret(1000000000)},
            MultShopReads, {Ret(read_upgrades(<<>>))})

InitMultiplier ==
    /\ now = 1000
    /\ InitGS
    /\ reads = NoReads
    /\ InitStrategy
    /\ InitClicker
    /\ InitLoops

MultUpdate(rd) ==
    /\ update_count < MaxMultUpdates
    /\ now' = now + 20
    /\ SetGS(update(GS, rd, now + 20))
    /\ reads' = rd
    /\ UNCHANGED <<stvars, clvars, lpvars>>

\* global_mult = self._estimate_global_multiplier(game_state)
EstimateGlobalMultiplier ==
    /\ query' = [op |-> "_estimate_global_multiplier", arg |-> <<>>,
                 result |-> <<_estimate_global_multiplier(GS)>>]
    /\ UNCHANGED <<now, gsvars, stvars, clvars, pc, stop_event, wake,
                   iterations, position, wm,
                   tooltip_cache>>

NextMultiplier ==
    \/ \E rd \in MultScripts : MultUpdate(rd)
    \/ EstimateGlobalMultiplier

SpecMultiplier == InitMultiplier /\ [][NextMultiplier]_vars

\* C22: on every snapshot _estimate_global_multiplier returns a value from
\* 1 to 10000, and exactly 1 when there are no buildings, the rate is not
\* positive or the theoretical production is not positive.
C22_MultiplierClamp ==
    [][(query'.op = "_estimate_global_multiplier" /\ gsvars' = gsvars)
        => LET r == query'.result[1]
           IN  /\ r[2] > 0
               /\ r[1] >= r[2]
               /\ r[1] <= 10000 * r[2]
               /\ (buildings = <<>> \/ cps <= 0 \/ theoretical_cps(GS) <= 0)
                     => r[1] = r[2]]_vars

\* the rate is more than 10000 times the theoretical production, and the
\* estimate returned is 10000
C22_Witness ==
    /\ query.op = "_estimate_global_multiplier"
    /\ query.result = <<(<<10000, 1>>)>>
    /\ theoretical_cps(GS) > 0
    /\ cps > 10000 * theoretical_cps(GS)
    /\ _estimate_global_multiplier(GS) = <<10000, 1>>

----------------------------------------------------------------------------
(* Specification SpecStrategy: get_best_purchase on the snapshots that two *)
(* update() calls leave, under any multipliers set by update_multipliers   *)

\* first update(): only the production rate may have been legible
StratFirstScripts ==
    Scripts({Ret(0)}, {Ret(0), Ret(1000)}, {Ret(<<>>)},
            {Ret(read_upgrades(<<>>))})

\* second update(): any stock, rate, shop rows and upgrade strip
StratShopReads ==
    {Ret(<<>>)} \cup
    {Ret(read_shop(<<"Cursore", "Nonna", "Cursor">>, <<c1, c2, c3>>, n)) :
        c1 \in {0, 10, 100}, c2 \in {0, 10, 100}, c3 \in {0, 10, 100},
        n \in {<<0, 0, 0>>, <<2, 1, 0>>}}
StratUpgReads ==
    {Ret(read_upgrades(p)) :
        p \in {<<>>, <<TRUE>>, <<FALSE>>, <<FALSE, TRUE>>, <<FALSE, TRUE, TRUE>>}}
StratSecondScripts ==
    Scripts({Ret(0), Ret(50), Ret(200)}, {Ret(0), Ret(5), Ret(1005), Ret(2000)},
            StratShopReads, StratUpgReads)

\* the snapshots: a first update at 2 s, a second one 2 s or 301 s later
StratSnapshots ==
    {update(update(GameState_init, r1, 1020), r2, 1020 + dt) :
        r1 \in {r \in StratFirstScripts : r.upg.st = "ok"},
        r2 \in {r \in StratSecondScripts : r.upg.st = "ok"},
        dt \in {20, 3010}}

MultNames  == {"Cursore", "Nonna"}
MultValues == {1, 2}

InitStrategySpec ==
    /\ \E g \in StratSnapshots :
        /\ now = g.last_update
        /\ cookies = g.cookies
        /\ cps = g.cps
        /\ buildings = g.buildings
        /\ upgrades = g.upgrades
        /\ cps_history = g.cps_history
        /\ last_update = g.last_update
        /\ update_count = g.update_count
        /\ building_count = g.building_count
    /\ reads = NoReads
    /\ InitStrategy
    /\ InitClicker
    /\ InitLoops

\* decision = strategy.get_best_purchase(game_state)
GetBestPurchase ==
    /\ ~decided
    /\ decision' = get_best_purchase(cps_multipliers, GS)
    /\ decided' = TRUE
    /\ UNCHANGED <<now, gsvars, cps_multipliers, clvars, lpvars>>

\* strategy.update_multipliers(name, v)
UpdateMultipliers(name, v) ==
    /\ cps_multipliers' = update_multipliers(cps_multipliers, name, v)
    /\ decision' = <<>>
    /\ decided' = FALSE
    /\ UNCHANGED <<now, gsvars, clvars, lpvars>>

NextStrategy ==
    \/ GetBestPurchase
    \/ \E name \in MultNames, v \in MultValues : UpdateMultipliers(name, v)

SpecStrategy == InitStrategySpec /\ [][NextStrategy]_vars

\* the terms of the claims about get_best_purchase, on the present snapshot
UpgradePopulated == \E i \in 1..Len(upgrades) : upgrades[i].click_pos # NoPos
Stalling         == is_stalling(GS, 5)
Gain(i)          == _estimate_cps_gain(cps_multipliers, buildings[i].name, GS)
EstCost(i)       == Get(BUILDING_BASE_COST, buildings[i].name, 0)
\* payoff_time = cost / production gain, in seconds
Payoff(i)        == <<EstCost(i) * 10 * Gain(i)[2], Gain(i)[1]>>
\* building i has a positive cost and a positive production gain
Qualifies(i)     == EstCost(i) > 0 /\ Gain(i)[1] > 0
Bldgs            == 1..Len(buildings)
\* get_best_purchase returned building i
Returned(i) ==
    /\ decision # <<>>
    /\ ~decision[1].is_upgrade
    /\ decision[1].name = buildings[i].name
    /\ decision[1].click_pos = buildings[i].click_pos
\* building i has the least payoff time of all qualifying buildings
GlobalMin(i) ==
    /\ Qualifies(i)
    /\ \A j \in Bldgs : Qualifies(j) => ~FracLess(Payoff(j), Payoff(i))
\* the building(s) of least payoff time are unaffordable
MinUnaffordable ==
    /\ \E i \in Bldgs : GlobalMin(i)
    /\ \A i \in Bldgs : GlobalMin(i) => ~buildings[i].affordable
\* affordable candidate a has a payoff time below twice that of building i
Near(a, i) == FracLess(Payoff(a), <<2 * Payoff(i)[1], Payoff(i)[2]>>)
AffordableCandidate(a) == buildings[a].affordable /\ Qualifies(a)

\* C2: whenever some upgrade of the snapshot has a click coordinate,
\* get_best_purchase returns the upgrade decision of the first such upgrade,
\* whatever the building list holds (an empty list included).
C2_UpgradePriority ==
    (decided /\ UpgradePopulated) =>
        /\ decision # <<>>
        /\ decision[1].is_upgrade
        /\ \E i \in 1..Len(upgrades) :
              /\ upgrades[i].click_pos # NoPos
              /\ decision[1].click_pos = upgrades[i].click_pos

\* C31: whenever get_best_purchase returns an upgrade, it is the first
\* upgrade in strip order that has a click coordinate, and the decision
\* carries payoff_time 0, cost 0, is_upgrade true and that upgrade's click
\* coordinate.
C31_UpgradeDecisionShape ==
    (decided /\ decision # <<>> /\ decision[1].is_upgrade) =>
        \E i \in 1..Len(upgrades) :
            /\ upgrades[i].click_pos # NoPos
            /\ \A j \in 1..(i - 1) : upgrades[j].click_pos = NoPos
            /\ decision[1].click_pos = upgrades[i].click_pos
            /\ decision[1].payoff_time = <<0, 1>>
            /\ decision[1].cost = 0

\* the upgrade returned is the second of three: the first has no
\* coordinate, the third has one
C31_Witness ==
    /\ decided /\ decision # <<>> /\ decision[1].is_upgrade
    /\ Len(upgrades) = 3
    /\ upgrades[1].click_pos = NoPos
    /\ upgrades[3].click_pos # NoPos
    /\ decision[1].click_pos = upgrades[2].click_pos

----------------------------------------------------------------------------
(* Specification SpecSentinel: get_best_purchase on shops that hold a row  *)
(* of long payoff time ("Banca": 1 400 000 / 100 s), a row of short        *)
(* payoff time and a row the production table does not know; nothing is    *)
(* owned yet, so the global multiplier is 1                                *)

SentinelShopReads ==
    {Ret(read_shop(<<"Banca", "Nonna", "Cursor">>, <<c1, c2, c3>>, <<0, 0, 0>>)) :
        c1 \in {0, 100}, c2 \in {0, 100}, c3 \in {0, 10}}
        \cup {Ret(read_shop(<<"Cursor", "Grandma">>, <<c1, c2>>, <<0, 0>>)) :
                 c1 \in {0, 10}, c2 \in {0, 100}}

SentinelScripts ==
    Scripts({Ret(0), Ret(50), Ret(200)}, {Ret(0), Ret(1005)},
            SentinelShopReads, {Ret(read_upgrades(<<>>)), Ret(read_upgrades(<<FALSE>>))})

SentinelSnapshots ==
    {update(update(GameState_init, r1, 1020), r2, 1020 + dt) :
        r1 \in {r \in StratFirstScripts : r.upg.st = "ok"},
        r2 \in {r \in SentinelScripts : r.upg.st = "ok"},
        dt \in {20, 3010}}

InitSentinel ==
    /\ \E g \in SentinelSnapshots :
        /\ now = g.last_update
        /\ cookies = g.cookies
        /\ cps = g.cps
        /\ buildings = g.buildings
        /\ upgrades = g.upgrades
        /\ cps_history = g.cps_history
        /\ last_update = g.last_update
        /\ update_count = g.update_count
        /\ building_count = g.building_count
    /\ reads = NoReads
    /\ InitStrategy
    /\ InitClicker
    /\ InitLoops

SpecSentinel == InitSentinel /\ [][NextStrategy]_vars

\* the rows of the candidate pool: the affordable ones if there is one, else
\* all
PoolRows ==
    IF \E i \in Bldgs : buildings[i].affordable
    THEN {i \in Bldgs : buildings[i].affordable}
    ELSE Bldgs

\* C32: a building decision whose cost is unknown (0) carries the payoff
\* sentinel 9999, never infinity, and is never returned while a building
\* with known positive cost and positive production gain is in the
\* candidate pool, whatever the payoff time of that building.
C32_UnknownCostSentinel ==
    (decided /\ decision # <<>> /\ ~decision[1].is_upgrade
            /\ decision[1].cost = 0) =>
        /\ decision[1].payoff_time = <<9999, 1>>
        /\ \A i \in PoolRows : ~Qualifies(i)

\* a row of payoff time above 9999 s is in the pool and is the one
\* returned, with its catalog cost, while a row of unknown economics is
\* in the pool too
C32_LongPayoffReturned ==
    /\ decided /\ decision # <<>> /\ ~decision[1].is_upgrade
    /\ decision[1].cost > 0
    /\ \E i \in PoolRows :
          /\ Returned(i)
          /\ Qualifies(i)
          /\ FracLess(<<9999, 1>>, Payoff(i))
    /\ \E j \in PoolRows : EstCost(j) = 0 \/ Gain(j)[1] <= 0

\* the fallback returned a row of unknown cost with the sentinel, out of a
\* pool of several rows
C32_Witness ==
    /\ decided /\ decision # <<>> /\ ~decision[1].is_upgrade
    /\ decision[1].cost = 0
    /\ decision[1].payoff_time = <<9999, 1>>
    /\ Cardinality(PoolRows) > 1

\* C5: with no upgrade populated and no stall, of two qualifying buildings
\* that are both affordable or both unaffordable, the one with the larger
\* payoff time (estimated cost / estimated gain, the engine's ranking metric)
\* is never the one returned.
C5_PayoffRanking ==
    (decided /\ ~UpgradePopulated /\ ~Stalling) =>
        \A a \in Bldgs, b \in Bldgs :
            (/\ Qualifies(a) /\ Qualifies(b)
             /\ buildings[a].affordable = buildings[b].affordable
             /\ FracLess(Payoff(a), Payoff(b)))
            => ~Returned(b)

\* the building returned has a smaller payoff time than an equally affordable
\* one that stands before it in the shop
C5_Witness ==
    /\ decided /\ ~UpgradePopulated /\ ~Stalling
    /\ \E a \in Bldgs, b \in Bldgs :
          /\ b < a
          /\ Qualifies(a) /\ Qualifies(b)
          /\ buildings[a].affordable /\ buildings[b].affordable
          /\ FracLess(Payoff(a), Payoff(b))
          /\ Returned(a)

\* C6 as stated: with no upgrade populated and no stall, when the building of
\* least payoff time is unaffordable and every affordable candidate (there is
\* one, as in the example 120 s against 500 s) has a payoff time of at least
\* twice that minimum, the unaffordable minimum is returned.
C6_FarReturnsMinimum ==
    (/\ decided /\ ~UpgradePopulated /\ ~Stalling
     /\ MinUnaffordable
     /\ \E a \in Bldgs : AffordableCandidate(a)
     /\ \A a \in Bldgs, i \in Bldgs :
           (AffordableCandidate(a) /\ GlobalMin(i)) => ~Near(a, i))
    => \E i \in Bldgs : GlobalMin(i) /\ Returned(i)

\* C6 amended: there is no factor of two.  With no upgrade populated and no
\* stall, when the building of least payoff time is unaffordable, it is
\* returned only if no building at all is affordable; as soon as an
\* affordable candidate exists, the affordable candidate of least payoff
\* time is returned, however far above the minimum it lies.
C6_AffordableAlwaysPreferred ==
    (decided /\ ~UpgradePopulated /\ ~Stalling /\ MinUnaffordable) =>
        /\ (\A b \in Bldgs : ~buildings[b].affordable)
               => \E i \in Bldgs : GlobalMin(i) /\ Returned(i)
        /\ (\E a \in Bldgs : AffordableCandidate(a))
               => \E a \in Bldgs :
                     /\ AffordableCandidate(a) /\ Returned(a)
                     /\ \A c \in Bldgs : AffordableCandidate(c)
                            => ~FracLess(Payoff(c), Payoff(a))

\* the far case: an affordable candidate at twice the minimum or more is the
\* one returned
C6_Witness ==
    /\ decided /\ ~UpgradePopulated /\ ~Stalling /\ MinUnaffordable
    /\ \E a \in Bldgs, i \in Bldgs :
          /\ AffordableCandidate(a) /\ GlobalMin(i)
          /\ ~Near(a, i)
          /\ Returned(a)

\* C7: with no upgrade populated and no stall, when the building of least
\* payoff time is unaffordable and some affordable candidate is within twice
\* that payoff time, an affordable building is returned.
C7_NearReturnsAffordable ==
    (/\ decided /\ ~UpgradePopulated /\ ~Stalling
     /\ MinUnaffordable
     /\ \E a \in Bldgs, i \in Bldgs :
           AffordableCandidate(a) /\ GlobalMin(i) /\ Near(a, i))
    => \E a \in Bldgs : buildings[a].affordable /\ Returned(a)

\* the near case happened and the affordable candidate was returned
C7_Witness ==
    /\ decided /\ ~UpgradePopulated /\ ~Stalling /\ MinUnaffordable
    /\ \E a \in Bldgs, i \in Bldgs :
          /\ AffordableCandidate(a) /\ GlobalMin(i) /\ Near(a, i)
          /\ Returned(a)

\* C8: with no upgrade populated, a stalling snapshot and an affordable
\* building, the affordable building of least snapshot cost is returned.
C8_AntiStall ==
    (/\ decided /\ ~UpgradePopulated /\ Stalling
     /\ \E a \in Bldgs : buildings[a].affordable)
    => \E a \in Bldgs :
          /\ buildings[a].affordable /\ Returned(a)
          /\ decision[1].cost = buildings[a].cost
          /\ \A c \in Bldgs : buildings[c].affordable
                 => buildings[a].cost <= buildings[c].cost

\* the override fired although another building has a smaller payoff time
C8_Witness ==
    /\ decided /\ ~UpgradePopulated /\ Stalling
    /\ \E a \in Bldgs, b \in Bldgs :
          /\ Returned(a) /\ buildings[a].affordable
          /\ Qualifies(a) /\ Qualifies(b)
          /\ buildings[b].affordable
          /\ buildings[a].cost < buildings[b].cost
          /\ FracLess(Payoff(b), Payoff(a))

\* C9 as stated: no building is returned whose snapshot cost is <= 0 or whose
\* estimated production gain is <= 0.
C9_NeverReturnsExcluded ==
    decided => \A i \in Bldgs :
        Returned(i) => (buildings[i].cost > 0 /\ Gain(i)[1] > 0)

\* C9 amended: a building whose estimated gain is <= 0 is returned only as a
\* last resort or by the anti-stall override: it is affordable (so its
\* snapshot cost is positive), and either no affordable building has a
\* positive gain or the snapshot is stalling.  A building whose snapshot cost
\* is <= 0 is returned only when no building is affordable, and then only
\* with a positive gain (it is ranked by its catalog cost).
C9_ExcludedOnlyAsLastResort ==
    decided => \A i \in Bldgs :
        Returned(i) =>
            /\ Gain(i)[1] <= 0 =>
                  /\ buildings[i].affordable /\ buildings[i].cost > 0
                  /\ \/ Stalling
                     \/ \A a \in Bldgs : buildings[a].affordable => Gain(a)[1] <= 0
            /\ buildings[i].cost <= 0 =>
                  /\ Gain(i)[1] > 0
                  /\ \A a \in Bldgs : ~buildings[a].affordable

\* the last resort happened: without a stall, a building of gain 0 is returned
C9_Witness ==
    /\ decided /\ ~Stalling
    /\ \E i \in Bldgs : Returned(i) /\ Gain(i)[1] <= 0

----------------------------------------------------------------------------
(* Specification SpecLoops: main() from its first game_state.update() on,   *)
(* the three loop threads interleaved call by call, and CTRL+C.             *)
(* A thread stands at "test" when it is about to evaluate its while         *)
(* condition (after its time.sleep), at "failsafe" when FailSafeException   *)
(* left its target function, at "crashed" when another exception did, and   *)
(* at "done" when it saw stop_event set.                                    *)

MaxIters == 1
MaxLoopClock == 20

\* CONFIG: 1 / cookie_cps, golden_cookie_scan_interval, buy_check_interval;
\* a twentieth of a second is below the grain of the clock
Interval == [cookie |-> 0, golden |-> 5, buy |-> 20]

\* t.join(timeout=2)
JoinTimeout == [cookie |-> 20, golden |-> 20, buy |-> 20]

\* what find_golden_cookie can do: None, a position, or raise
GoldenReads == {Ret(NoPos), Ret(<<700, 300>>), Raised}

\* what the screen shows to an update() of the loops
LoopScripts ==
    {rd \in Scripts({Ret(200)}, {Ret(1000)},
                    {Ret(read_shop(<<"Cursore">>, <<10>>, <<1>>))},
                    {Ret(read_upgrades(<<>>)), Ret(read_upgrades(<<TRUE>>))}) :
        rd.upg.st = "ok"}

Terminated(t) == pc[t] \in {"done", "failsafe", "crashed"}

\* daemon threads run only while main has not returned
Running(t, at) == pc["main"] # "exited" /\ pc[t] = at

\* the thread goes to time.sleep(interval) and then to its while condition
Sleep(t) ==
    /\ pc' = [pc EXCEPT ![t] = "test"]
    /\ wake' = [wake EXCEPT ![t] = now + Interval[t]]

\* the exception leaves the thread's target: the thread ends
Die(t, how) ==
    /\ pc' = [pc EXCEPT ![t] = how]
    /\ wake' = wake

InitLoopsSpec ==
    /\ now = 1000
    /\ InitGS
    /\ reads = NoReads
    /\ InitStrategy
    /\ InitClicker
    /\ InitLoops

\* main, lines 161-192: the first update(), stop_event, the threads started
MainStart(rd) ==
    /\ pc["main"] = "init"
    /\ SetGS(update(GS, rd, now))
    /\ reads' = rd
    /\ stop_event' = FALSE
    /\ pc' = [t \in Threads |-> IF t = "main" THEN "stats" ELSE "test"]
    /\ UNCHANGED <<now, stvars, clvars, wake, iterations, position, wm, query,
                   tooltip_cache>>

\* while not stop_event.is_set(), once the sleep before it is over
\* `while True:` in the place of the test of stop_event
Test_while_true(t, first) ==
    /\ Running(t, "test")
    /\ now >= wake[t]
    /\ iterations[t] < MaxIters
    /\ pc' = [pc EXCEPT ![t] = first]
    /\ iterations' = [iterations EXCEPT ![t] = @ + 1]
    /\ UNCHANGED <<now, gsvars, stvars, clvars, stop_event, wake, position, wm, query,
                   tooltip_cache>>

\* `while not stop_event.is_set():` after the sleep of the last iteration
Test(t, first) ==
    /\ Running(t, "test")
    /\ now >= wake[t]
    /\ IF stop_event
       THEN pc' = [pc EXCEPT ![t] = "done"] /\ iterations' = iterations
       ELSE /\ iterations[t] < MaxIters
            /\ pc' = [pc EXCEPT ![t] = first]
            /\ iterations' = [iterations EXCEPT ![t] = @ + 1]
    /\ UNCHANGED <<now, gsvars, stvars, clvars, stop_event, wake, position, wm, query,
                   tooltip_cache>>

CookieTest == Test("cookie", "click")

\* the click loop adding its click to the snapshot's stock
CookieClick_counts(jitter, o) ==
    /\ Running("cookie", "click")
    /\ IF o = "ok"
       THEN /\ SetCL(click(moveTo(CL, <<_cookie_pos[1] + jitter[1],
                                        _cookie_pos[2] + jitter[2]>>),
                           "click_main_cookie", "", now))
            /\ cookies' = cookies + 1
            /\ Sleep("cookie")
       ELSE /\ UNCHANGED <<last_buy_time, pointer, clicks, cookies>>
            /\ IF o = "failsafe" THEN Die("cookie", "failsafe")
                                 ELSE Sleep("cookie")
    /\ UNCHANGED <<now, cps, buildings, upgrades, cps_history, last_update,
                   update_count, building_count, reads, stvars, call,
                   stop_event, iterations, position, wm, query,
                   tooltip_cache>>

\* clicker.click_main_cookie(): pyautogui.click(x, y) moves and clicks
CookieClick(jitter, o) ==
    /\ Running("cookie", "click")
    /\ IF o = "ok"
       THEN /\ SetCL(click(moveTo(CL, <<_cookie_pos[1] + jitter[1],
                                        _cookie_pos[2] + jitter[2]>>),
                           "click_main_cookie", "", now))
            /\ Sleep("cookie")
       ELSE /\ UNCHANGED <<last_buy_time, pointer, clicks>>
            /\ IF o = "failsafe" THEN Die("cookie", "failsafe")
                                 ELSE Sleep("cookie")
    /\ UNCHANGED <<now, gsvars, stvars, call, stop_event, iterations, position, wm, query,
                   tooltip_cache>>

GoldenTest == Test("golden", "scan")

\* the position found is clicked only if no purchase is in its cooldown
GoldenScan_cooldown(r) ==
    /\ Running("golden", "scan")
    /\ IF r.st # "ok" THEN Die("golden", "crashed") /\ position' = position
       ELSE /\ position' = r.val
            /\ IF \/ r.val = NoPos
                  \/ \E n \in DOMAIN last_buy_time :
                         CooldownActive(now, last_buy_time[n])
               THEN Sleep("golden")
               ELSE pc' = [pc EXCEPT !["golden"] = "move"] /\ wake' = wake
    /\ UNCHANGED <<now, gsvars, stvars, clvars, stop_event, iterations, wm, query,
                   tooltip_cache>>

\* position = screen_reader.find_golden_cookie()
GoldenScan(r) ==
    /\ Running("golden", "scan")
    /\ IF r.st # "ok" THEN Die("golden", "crashed") /\ position' = position
       ELSE /\ position' = r.val
            /\ IF r.val = NoPos
               THEN Sleep("golden")
               ELSE pc' = [pc EXCEPT !["golden"] = "move"] /\ wake' = wake
    /\ UNCHANGED <<now, gsvars, stvars, clvars, stop_event, iterations, wm, query,
                   tooltip_cache>>

\* clicker.click_at(position): pyautogui.moveTo(x, y, duration=0.05)
GoldenMove(o) ==
    /\ Running("golden", "move")
    /\ IF o = "ok"
       THEN /\ SetCL(moveTo(CL, position))
            /\ pc' = [pc EXCEPT !["golden"] = "click"] /\ wake' = wake
       ELSE /\ UNCHANGED <<last_buy_time, pointer, clicks>>
            /\ IF o = "failsafe" THEN Die("golden", "failsafe")
                                 ELSE Sleep("golden")
    /\ UNCHANGED <<now, gsvars, stvars, call, stop_event, iterations, position, wm, query,
                   tooltip_cache>>

\* clicker.click_at(position): pyautogui.click()
GoldenClick(o) ==
    /\ Running("golden", "click")
    /\ IF o = "ok" THEN SetCL(click(CL, "click_at", "", now))
                   ELSE UNCHANGED <<last_buy_time, pointer, clicks>>
    /\ IF o = "failsafe" THEN Die("golden", "failsafe") ELSE Sleep("golden")
    /\ UNCHANGED <<now, gsvars, stvars, call, stop_event, iterations, position, wm, query,
                   tooltip_cache>>

BuyTest == Test("buy", "update")

\* game_state.update()
BuyUpdate(rd) ==
    /\ Running("buy", "update")
    /\ SetGS(update(GS, rd, now))
    /\ reads' = rd
    /\ pc' = [pc EXCEPT !["buy"] = "decide"]
    /\ decided' = FALSE
    /\ UNCHANGED <<now, cps_multipliers, decision, clvars, stop_event, wake,
                   iterations, position, wm, query,
                   tooltip_cache>>

\* decision = strategy.get_best_purchase(game_state); if decision: ... else: ...
BuyDecide ==
    /\ Running("buy", "decide")
    /\ decision' = get_best_purchase(cps_multipliers, GS)
    /\ decided' = TRUE
    /\ IF decision' = <<>>
       THEN Sleep("buy")
       ELSE pc' = [pc EXCEPT !["buy"] = "move"] /\ wake' = wake
    /\ UNCHANGED <<now, gsvars, cps_multipliers, clvars, stop_event,
                   iterations, position, wm, query,
                   tooltip_cache>>

\* clicker.click_buy(decision) up to pyautogui.moveTo(x, y, duration=0.08)
BuyMove(jitter, o) ==
    /\ Running("buy", "move")
    /\ LET d == decision[1]
           result == IF d.click_pos = NoPos THEN "no_pos"
                     ELSE IF CooldownActive(now, Get(last_buy_time, d.name, 0))
                     THEN "cooldown"
                     ELSE IF o = "ok" THEN "moved" ELSE o
       IN  /\ call' = [op |-> "click_buy", name |-> d.name, start |-> now,
                       result |-> result,
                       raised |-> IF result \in {"failsafe", "error"}
                                  THEN result ELSE "none"]
           /\ pointer' = IF result = "moved"
                         THEN <<d.click_pos[1] + jitter[1],
                                d.click_pos[2] + jitter[2]>>
                         ELSE pointer
           /\ IF result = "moved"
              THEN pc' = [pc EXCEPT !["buy"] = "click"] /\ wake' = wake
              ELSE IF result = "failsafe" THEN Die("buy", "failsafe")
                                          ELSE Sleep("buy")
    /\ UNCHANGED <<now, gsvars, stvars, last_buy_time, clicks, stop_event,
                   iterations, position, wm, query,
                   tooltip_cache>>

\* the click made, and click_buy called again for the same decision
BuyClick_again(o) ==
    /\ Running("buy", "click")
    /\ IF o = "ok"
       THEN SetCL(SetLastBuy(click(CL, "click_buy", call.name, now),
                             call.name, now))
       ELSE UNCHANGED <<last_buy_time, pointer, clicks>>
    /\ call' = [call EXCEPT !.result = IF o = "ok" THEN "clicked" ELSE o,
                             !.raised = IF o = "ok" THEN "none" ELSE o]
    /\ IF o = "failsafe" THEN Die("buy", "failsafe")
       ELSE IF o = "ok" /\ Len(clicks) < 2 THEN UNCHANGED <<pc, wake>>
       ELSE Sleep("buy")
    /\ UNCHANGED <<now, gsvars, stvars, stop_event, iterations, position, wm, query,
                   tooltip_cache>>

\* clicker.click_buy(decision): pyautogui.click() and the timestamp after it
BuyClick(o) ==
    /\ Running("buy", "click")
    /\ IF o = "ok"
       THEN SetCL(SetLastBuy(click(CL, "click_buy", call.name, now),
                             call.name, now))
       ELSE UNCHANGED <<last_buy_time, pointer, clicks>>
    /\ call' = [call EXCEPT !.result = IF o = "ok" THEN "clicked" ELSE o,
                             !.raised = IF o = "ok" THEN "none" ELSE o]
    /\ IF o = "failsafe" THEN Die("buy", "failsafe") ELSE Sleep("buy")
    /\ UNCHANGED <<now, gsvars, stvars, stop_event, iterations, position, wm, query,
                   tooltip_cache>>

\* KeyboardInterrupt in main's statistics loop: stop_event.set()
CtrlC ==
    /\ pc["main"] = "stats"
    /\ stop_event' = TRUE
    /\ pc' = [pc EXCEPT !["main"] = "join_cookie"]
    /\ wake' = [wake EXCEPT !["main"] = now + JoinTimeout["cookie"]]
    /\ UNCHANGED <<now, gsvars, stvars, clvars, iterations, position, wm, query,
                   tooltip_cache>>

\* for t in threads: t.join(timeout=2): the join of thread t returns, and
\* main goes to the next join or returns
MainJoin(t, next) ==
    /\ pc["main"] = "join_" \o t
    /\ Terminated(t) \/ now >= wake["main"]
    /\ IF next = ""
       THEN pc' = [pc EXCEPT !["main"] = "exited"] /\ wake' = wake
       ELSE /\ pc' = [pc EXCEPT !["main"] = "join_" \o next]
            /\ wake' = [wake EXCEPT !["main"] = now + JoinTimeout[next]]
    /\ UNCHANGED <<now, gsvars, stvars, clvars, stop_event, iterations,
                   position, wm, query,
                   tooltip_cache>>

\* two seconds pass
LoopTick ==
    /\ pc["main"] \notin {"init", "exited"}
    /\ now + 20 <= 1000 + MaxLoopClock
    /\ now' = now + 20
    /\ UNCHANGED <<gsvars, stvars, clvars, lpvars>>

NextLoops ==
    \/ \E rd \in LoopScripts : MainStart(rd)
    \/ CookieTest
    \/ \E j \in {<<-30, 30>>}, o \in Outcomes : CookieClick(j, o)
    \/ GoldenTest
    \/ \E r \in GoldenReads : GoldenScan(r)
    \/ \E o \in Outcomes : GoldenMove(o)
    \/ \E o \in Outcomes : GoldenClick(o)
    \/ BuyTest
    \/ \E rd \in LoopScripts : BuyUpdate(rd)
    \/ BuyDecide
    \/ \E j \in {<<5, -3>>}, o \in Outcomes : BuyMove(j, o)
    \/ \E o \in Outcomes : BuyClick(o)
    \/ CtrlC
    \/ MainJoin("cookie", "golden")
    \/ MainJoin("golden", "buy")
    \/ MainJoin("buy", "")
    \/ LoopTick

SpecLoops == InitLoopsSpec /\ [][NextLoops]_vars

\* C3: once FailSafeException was raised inside one loop, no loop starts
\* another iteration and no click is issued any more.
C3_EmergencyStopIsGlobal ==
    [][(\E l \in Loops : pc[l] = "failsafe")
        => /\ \A l \in Loops : iterations'[l] = iterations[l]
           /\ clicks' = clicks]_vars

\* C15: an exception other than the failsafe raised inside one iteration
\* (here: the screen capture of the golden cookie scan failing) terminates
\* none of the three loops.
C15_LoopsSurviveExceptions ==
    \A l \in Loops : pc[l] # "crashed"

\* the purchase clicks dispatched so far
BuyClicks == Cardinality({i \in 1..Len(clicks) : clicks[i].by = "click_buy"})

\* C23: an iteration of buy_loop goes from the test of the stop signal to
\* one update(), then to one get_best_purchase(), then, only if a decision
\* was returned, to one click_buy(), which dispatches at most one click, and
\* back to the test; update() is called and purchase clicks are dispatched
\* nowhere else once the threads run.
C23_OnePurchasePerCycle ==
    [][LET at == pc["buy"]
           to == pc'["buy"]
       IN  /\ (at = "test" /\ to # at) => to \in {"update", "done"}
           /\ (at = "update" /\ to # at)
                 => (to = "decide" /\ update_count' = update_count + 1)
           /\ (at = "decide" /\ to # at)
                 => /\ decision' = get_best_purchase(cps_multipliers, GS)
                    /\ to = IF decision' = <<>> THEN "test" ELSE "move"
           /\ (at = "move" /\ to # at) => to \in {"click", "test", "failsafe"}
           /\ (at = "click" /\ to # at) => to \in {"test", "failsafe"}
           /\ update_count' # update_count
                 => (pc["main"] = "init" \/ (at = "update" /\ to = "decide"))
           /\ decision' # decision => at = "decide"
           /\ BuyClicks' # BuyClicks
                 => (at = "click" /\ to # at /\ BuyClicks' = BuyClicks + 1)]_vars

\* the buy loop made one iteration: one update() after main's, a decision,
\* and one purchase click
C23_Witness ==
    /\ pc["buy"] = "test"
    /\ iterations["buy"] = 1
    /\ update_count = 2
    /\ decided /\ decision # <<>>
    /\ BuyClicks = 1

\* C24: a scan that returns a position is followed, in the same iteration,
\* by click_at(position): the pointer is moved there and a click is made
\* where the pointer then is, unless the pointer provider raises, whatever
\* the cooldown timestamps hold; click_at leaves the cooldown timestamps as
\* they are.
C24_BonusBypassesCooldown ==
    [][LET at == pc["golden"]
           to == pc'["golden"]
       IN  /\ (at = "scan" /\ to # at)
                 => \/ to = "crashed"
                    \/ position' = NoPos /\ to = "test"
                    \/ position' # NoPos /\ to = "move"
           /\ (at = "move" /\ to # at)
                 => /\ to \in {"click", "test", "failsafe"}
                    /\ to = "click" => pointer' = position
                    /\ last_buy_time' = last_buy_time
           /\ (at = "click" /\ to # at)
                 => /\ to \in {"test", "failsafe"}
                    /\ \/ clicks' = clicks
                       \/ clicks' = Append(clicks,
                              [by |-> "click_at", name |-> "",
                               pos |-> pointer, t |-> now])
                    /\ last_buy_time' = last_buy_time]_vars

\* a bonus click was dispatched less than buy_cooldown after a purchase
\* click, with that purchase's cooldown timestamp in place
C24_Witness ==
    \E i \in 1..Len(clicks), j \in 1..Len(clicks) :
        /\ i < j
        /\ clicks[i].by = "click_buy"
        /\ clicks[j].by = "click_at"
        /\ clicks[j].t - clicks[i].t < buy_cooldown
        /\ clicks[i].name \in DOMAIN last_buy_time
        /\ CooldownActive(clicks[j].t, last_buy_time[clicks[i].name])

\* the snapshot fields of the GameState object the loops share
SnapshotFields ==
    <<cookies, cps, buildings, upgrades, cps_history, building_count>>

\* C25: once the loop threads run, a step that changes a snapshot field is
\* the update() call of the buy loop; the steps of the click loop, of the
\* bonus scan loop and of main change none.
C25_SingleWriter ==
    [][(pc["main"] # "init" /\ SnapshotFields' # SnapshotFields)
        => /\ pc["buy"] = "update"
           /\ pc'["buy"] = "decide"
           /\ \A t \in Threads \ {"buy"} : pc'[t] = pc[t]]_vars

\* with the three loops running, the click loop and the scan loop have
\* clicked and the buy loop's update() has written the snapshot
C25_Witness ==
    /\ pc["main"] = "stats"
    /\ update_count = 2
    /\ Len(cps_history) = 2
    /\ \E i \in 1..Len(clicks) : clicks[i].by = "click_main_cookie"
    /\ \E i \in 1..Len(clicks) : clicks[i].by = "click_at"

\* C36 as claimed: under every interleaving of the three loops a click of
\* click_buy or click_at is made with the pointer where that call's own
\* moveTo put it, and click_buy writes a timestamp only with such a click
C36_ClickOnOwnTarget ==
    [][/\ (pc["buy"] = "click" /\ pc'["buy"] # "click" /\ clicks' # clicks)
            => /\ clicks'[Len(clicks')].by = "click_buy"
               /\ clicks'[Len(clicks')].pos =
                      <<decision[1].click_pos[1] + 5,
                        decision[1].click_pos[2] - 3>>
       /\ (pc["golden"] = "click" /\ pc'["golden"] # "click"
              /\ clicks' # clicks)
            => /\ clicks'[Len(clicks')].by = "click_at"
               /\ clicks'[Len(clicks')].pos = position
       /\ last_buy_time' # last_buy_time
            => clicks'[Len(clicks')].pos =
                  <<decision[1].click_pos[1] + 5,
                    decision[1].click_pos[2] - 3>>]_vars

\* the thread is between the test of its while condition and the sleep that
\* ends the iteration
InIteration(l) == pc[l] \notin {"unstarted", "test", "done", "failsafe", "crashed"}

\* C17 as claimed: once the stop signal is set every loop finishes its
\* current iteration; so when main has returned, and the daemon threads
\* ended with it, no loop was inside an iteration.
C17_FinishesIteration ==
    pc["main"] = "exited" => \A l \in Loops : ~InIteration(l)

\* C17 amended: once the stop signal is set it stays set, no loop starts a
\* further iteration, a loop that tests the signal terminates, a terminated
\* loop stays so, and main leaves the join of a loop only when the loop has
\* terminated or the join's two seconds are over.
C17_StopAtBoundary ==
    [][stop_event =>
        /\ stop_event'
        /\ \A l \in Loops :
              /\ iterations'[l] = iterations[l]
              /\ (pc[l] = "test" /\ pc'[l] # "test") => pc'[l] = "done"
              /\ Terminated(l) => pc'[l] = pc[l]
              /\ (pc["main"] = "join_" \o l /\ pc'["main"] # pc["main"])
                    => (Terminated(l) \/ now >= wake["main"])]_vars

\* the stop signal is set; the three loops made one iteration each, the buy
\* loop with its click, tested the signal and terminated, and main returned
C17_Witness ==
    /\ stop_event
    /\ pc["main"] = "exited"
    /\ \A l \in Loops : pc[l] = "done" /\ iterations[l] = 1
    /\ call.op = "click_buy" /\ call.result = "clicked"

----------------------------------------------------------------------------
(* Specification SpecStartup: WindowManager.find_and_focus called by main  *)
(* with its default arguments or by another caller with any retries, and   *)
(* main up to the first clicks of the cookie loop                          *)

MaxRetries == 3

\* find_and_focus(self, retries=5, delay=2.0)
default_retries == 5

default_delay == 20

\* what _search_window can do: return a window, return None, or raise (it
\* has no handler around gw.getAllWindows())
SearchOutcomes == {"found", "none", "raise"}

\* range(1, retries + 2): one attempt too many
attempts_one_more(retries) == 1..(retries + 1)

\* range(1, retries + 1)
attempts(retries) == 1..retries

\* the call find_and_focus(retries) begins
find_and_focus(w, caller, retries) ==
    [w EXCEPT !.caller = caller, !.retries = retries, !.attempt = 1,
              !.outcomes = <<>>, !.result = "none"]

\* one pass of the for loop of find_and_focus, the search returning found
\* or none; has_rect tells if _update_rect could read the window's geometry
search(w, found, has_rect) ==
    IF found
    THEN [w EXCEPT !._window = TRUE, !.rect = has_rect,
                   !.outcomes = Append(@, "found"), !.result = "true"]
    ELSE [w EXCEPT !.outcomes = Append(@, "none"), !.attempt = @ + 1]

InitStartup ==
    /\ now = 1000
    /\ InitGS
    /\ reads = NoReads
    /\ InitStrategy
    /\ InitClicker
    /\ pc = [t \in Threads |-> IF t = "main" THEN "start" ELSE "unstarted"]
    /\ stop_event = FALSE
    /\ wake = [t \in Threads |-> 0]
    /\ iterations = [l \in Loops |-> 0]
    /\ position = NoPos
    /\ wm = WindowManager_init
    /\ query = NoQuery
    /\ tooltip_cache = EmptyCache

\* main, line 139: window.find_and_focus(); or a call by another client
FindAndFocus(caller, retries) ==
    /\ pc["main"] = "start"
    /\ wm' = find_and_focus(wm, caller, retries)
    /\ pc' = [pc EXCEPT !["main"] = "search"]
    /\ UNCHANGED <<now, gsvars, stvars, clvars, stop_event, wake, iterations,
                   position, query,
                   tooltip_cache>>

\* one pass of the for loop: _search_window(), then the return of True, or
\* the sleep of delay seconds if another attempt follows
Search(o, has_rect) ==
    /\ pc["main"] = "search"
    /\ wm.attempt \in attempts(wm.retries)
    /\ IF o = "raise"
       THEN /\ wm' = [wm EXCEPT !.outcomes = Append(@, "raise"),
                                !.result = "raised"]
            /\ pc' = [pc EXCEPT !["main"] = "raised"]
            /\ now' = now
       ELSE /\ wm' = search(wm, o = "found", has_rect)
            /\ pc' = [pc EXCEPT !["main"] =
                          IF o = "found" THEN "returned" ELSE "search"]
            /\ now' = IF o = "found" THEN now + 3
                      ELSE IF wm.attempt < wm.retries THEN now + default_delay
                      ELSE now
    /\ UNCHANGED <<gsvars, stvars, clvars, stop_event, wake, iterations,
                   position, query,
                   tooltip_cache>>

\* the for loop is over: return False
ReturnFalse ==
    /\ pc["main"] = "search"
    /\ wm.attempt \notin attempts(wm.retries)
    /\ wm' = [wm EXCEPT !.result = "false"]
    /\ pc' = [pc EXCEPT !["main"] = "returned"]
    /\ UNCHANGED <<now, gsvars, stvars, clvars, stop_event, wake, iterations,
                   position, query,
                   tooltip_cache>>

\* main, lines 139-142: if not window.find_and_focus(): sys.exit(1)
MainExit ==
    /\ pc["main"] = "returned"
    /\ wm.caller = "main"
    /\ wm.result = "false"
    /\ pc' = [pc EXCEPT !["main"] = "exit1"]
    /\ UNCHANGED <<now, gsvars, stvars, clvars, stop_event, wake, iterations,
                   position, wm, query,
                   tooltip_cache>>

\* main, lines 144-159: the collaborators are built, the countdown runs
MainCountdown ==
    /\ pc["main"] = "returned"
    /\ wm.caller = "main"
    /\ wm.result = "true"
    /\ pc' = [pc EXCEPT !["main"] = "init"]
    /\ now' = now + 50
    /\ UNCHANGED <<gsvars, stvars, clvars, stop_event, wake, iterations,
                   position, wm, query,
                   tooltip_cache>>

NextStartup ==
    \/ FindAndFocus("main", default_retries)
    \/ \E r \in 0..MaxRetries : FindAndFocus("other", r)
    \/ \E o \in SearchOutcomes, has_rect \in BOOLEAN : Search(o, has_rect)
    \/ ReturnFalse
    \/ MainExit
    \/ MainCountdown
    \/ \E rd \in LoopScripts : MainStart(rd)
    \/ CookieTest
    \/ \E j \in {<<-30, 30>>}, o \in Outcomes : CookieClick(j, o)
    \/ GoldenTest
    \/ BuyTest

SpecStartup == InitStartup /\ [][NextStartup]_vars

\* the searches made so far that did not find the window
FailedSearches == {i \in 1..Len(wm.outcomes) : wm.outcomes[i] = "none"}

\* C18: find_and_focus(retries) makes at most retries searches (5 when main
\* calls it), returns True at the first search that finds the window, and
\* returns False only after retries failed searches; when it returned False
\* to main, main exits with status 1, no loop thread started, no click made.
C18_BoundedDiscovery ==
    /\ Len(wm.outcomes) <= wm.retries
    /\ wm.caller = "main" => wm.retries = 5
    /\ \A i \in 1..Len(wm.outcomes) :
          wm.outcomes[i] # "none" => i = Len(wm.outcomes)
    /\ wm.result = "true"
          <=> (wm.outcomes # <<>> /\ wm.outcomes[Len(wm.outcomes)] = "found")
    /\ wm.result = "false"
          => Cardinality(FailedSearches) = wm.retries
    /\ (wm.caller = "main" /\ wm.result = "false")
          => /\ pc["main"] \in {"returned", "exit1"}
             /\ \A l \in Loops : pc[l] = "unstarted"
             /\ clicks = <<>>

\* main's call returned False after five failed searches and main exited
C18_Witness ==
    /\ wm.caller = "main"
    /\ wm.result = "false"
    /\ Cardinality(FailedSearches) = 5
    /\ pc["main"] = "exit1"

----------------------------------------------------------------------------
(* Specification SpecRefresh: a client of WindowManager calls              *)
(* find_and_focus and refresh, while the window may be moved or closed     *)

MaxRefreshClock == 200

\* reading w.left, w.top, w.width, w.height of the pygetwindow handle: the
\* geometry is read, or the read raises because the window is gone
GeometryOutcomes == {"read", "raise"}

\* WindowManager._update_rect(): `except Exception` logs what the read
\* raised and self.rect stays as it was
_update_rect(w, geometry) ==
    IF ~w._window THEN w
    ELSE IF geometry = "read" THEN [w EXCEPT !.rect = TRUE]
    ELSE w

\* WindowManager.refresh() with a window handle: try: self._update_rect();
\* return True; the except branch is taken when _update_rect raises, which
\* its own handler never lets it do
refresh(w, geometry) ==
    [w |-> _update_rect(w, geometry), result |-> "true"]

InitRefresh == InitStartup

\* refresh() while self._window is None: return self.find_and_focus()
RefreshSearch ==
    /\ pc["main"] \in {"start", "returned"}
    /\ now < 1000 + MaxRefreshClock
    /\ ~wm._window
    /\ wm' = find_and_focus(wm, "refresh", default_retries)
    /\ pc' = [pc EXCEPT !["main"] = "search"]
    /\ query' = [op |-> "refresh", arg |-> <<"none">>,
                 result |-> <<"find_and_focus">>]
    /\ UNCHANGED <<now, gsvars, stvars, clvars, stop_event, wake, iterations,
                   position, tooltip_cache>>

\* refresh() with a window handle
Refresh(geometry) ==
    /\ pc["main"] = "returned"
    /\ now < 1000 + MaxRefreshClock
    /\ wm._window
    /\ LET r == refresh(wm, geometry)
       IN  /\ wm' = r.w
           /\ query' = [op |-> "refresh", arg |-> <<geometry>>,
                        result |-> <<r.result>>]
    /\ UNCHANGED <<now, gsvars, stvars, clvars, pc, stop_event, wake,
                   iterations, position, tooltip_cache>>

\* the client calls find_and_focus(retries) again
FindAgain(retries) ==
    /\ pc["main"] = "returned"
    /\ now < 1000 + MaxRefreshClock
    /\ wm' = find_and_focus(wm, "other", retries)
    /\ pc' = [pc EXCEPT !["main"] = "search"]
    /\ UNCHANGED <<now, gsvars, stvars, clvars, stop_event, wake, iterations,
                   position, query, tooltip_cache>>

NextRefresh ==
    \/ \E r \in 0..MaxRetries : FindAndFocus("other", r)
    \/ \E r \in 0..MaxRetries : FindAgain(r)
    \/ \E o \in SearchOutcomes, has_rect \in BOOLEAN : Search(o, has_rect)
    \/ ReturnFalse
    \/ RefreshSearch
    \/ \E geometry \in GeometryOutcomes : Refresh(geometry)

SpecRefresh == InitRefresh /\ [][NextRefresh]_vars

\* C30: refresh() returns True only if the window still exists: when the
\* read of the geometry fails because the window was closed, refresh()
\* does not return True.
C30_RefreshSeesClosedWindow ==
    (query.op = "refresh" /\ query.arg[1] = "raise")
        => query.result[1] # "true"

----------------------------------------------------------------------------
(* Text and floats: a str is a sequence of one-character strings; a float  *)
(* is the decimal numeral of its value (integer digits without leading     *)
(* zeros, fraction digits without trailing zeros) or inf                   *)

DigitChars == <<"0", "1", "2", "3", "4", "5", "6", "7", "8", "9">>

Digit == {DigitChars[i] : i \in 1..10}

DigitVal(c) == (CHOOSE i \in 1..10 : DigitChars[i] = c) - 1

UpperChars ==
    <<"A", "B", "C", "D", "E", "F", "G", "H", "I", "J", "K", "L", "M", "N",
      "O", "P", "Q", "R", "S", "T", "U", "V", "W", "X", "Y", "Z">>

LowerChars ==
    <<"a", "b", "c", "d", "e", "f", "g", "h", "i", "j", "k", "l", "m", "n",
      "o", "p", "q", "r", "s", "t", "u", "v", "w", "x", "y", "z">>

\* str.lower()
lower(s) ==
    [i \in 1..Len(s) |->
        IF \E k \in 1..26 : UpperChars[k] = s[i]
        THEN LowerChars[CHOOSE k \in 1..26 : UpperChars[k] = s[i]]
        ELSE s[i]]

Whitespace == {" ", "\n", "\t"}

SetMin(S) == CHOOSE x \in S : \A y \in S : x <= y
SetMax(S) == CHOOSE x \in S : \A y \in S : x >= y

\* str.strip()
strip(s) ==
    LET ink == {i \in 1..Len(s) : s[i] \notin Whitespace}
    IN  IF ink = {} THEN <<>> ELSE SubSeq(s, SetMin(ink), SetMax(ink))

\* the word w stands in s at index i
At(s, w, i) == i + Len(w) - 1 <= Len(s) /\ SubSeq(s, i, i + Len(w) - 1) = w

\* w in s
In(w, s) == \E i \in 1..Len(s) : At(s, w, i)

\* re.sub(r"(w1|w2|...)", "", s): the leftmost match is taken out, of the
\* first alternative that matches there, and the scan goes on behind it
RECURSIVE re_sub_words(_, _)
re_sub_words(words, s) ==
    LET hits == {i \in 1..Len(s) : \E k \in 1..Len(words) : At(s, words[k], i)}
    IN  IF hits = {} THEN s
        ELSE LET i == SetMin(hits)
                 k == SetMin({j \in 1..Len(words) : At(s, words[j], i)})
             IN  SubSeq(s, 1, i - 1)
                   \o re_sub_words(words, SubSeq(s, i + Len(words[k]), Len(s)))

\* str.replace(w, r), for r empty or w and r of one character
replace(s, w, r) ==
    IF r # <<>> THEN [i \in 1..Len(s) |-> IF s[i] = w[1] THEN r[1] ELSE s[i]]
    ELSE IF Len(w) = 1 THEN SelectSeq(s, LAMBDA c : c # w[1])
    ELSE re_sub_words(<<w>>, s)

count(s, c) == Len(SelectSeq(s, LAMBDA x : x = c))

\* re.sub(r"[^\d.]", "", s)
keep_digits_and_dots(s) == SelectSeq(s, LAMBDA c : c \in Digit \cup {"."})

strip_leading_zeros(d) ==
    LET nz == {i \in 1..Len(d) : d[i] # "0"}
    IN  IF nz = {} THEN <<>> ELSE SubSeq(d, SetMin(nz), Len(d))

strip_trailing_zeros(d) ==
    LET nz == {i \in 1..Len(d) : d[i] # "0"}
    IN  IF nz = {} THEN <<>> ELSE SubSeq(d, 1, SetMax(nz))

\* the words of the suffix tables and of the noise pattern
WORD_million == <<"m", "i", "l", "l", "i", "o", "n">>
WORD_billion == <<"b", "i", "l", "l", "i", "o", "n">>
WORD_trillion == <<"t", "r", "i", "l", "l", "i", "o", "n">>
WORD_quadrillion == <<"q", "u", "a", "d", "r", "i", "l", "l", "i", "o", "n">>
WORD_quintillion == <<"q", "u", "i", "n", "t", "i", "l", "l", "i", "o", "n">>
WORD_milione == <<"m", "i", "l", "i", "o", "n", "e">>
WORD_miliardo == <<"m", "i", "l", "i", "a", "r", "d", "o">>
WORD_al_secondo == <<"a", "l", " ", "s", "e", "c", "o", "n", "d", "o">>
WORD_biscotti == <<"b", "i", "s", "c", "o", "t", "t", "i">>
WORD_cookie == <<"c", "o", "o", "k", "i", "e">>

\* the largest count of integer digits a finite float can have
MaxFloatDigits == 309

\* 2^1024 - 2^970, from where on float() rounds to inf, is
\* 1.797693134862315807937...e308: its first digits, rounded up
FloatOverflowFrom ==
    <<"1", "7", "9", "7", "6", "9", "3", "1", "3", "4", "8", "6", "2", "3",
      "1", "5", "8", "0", "8">>

\* a >= b for digit sequences of one length
DigitsGeq(a, b) ==
    \/ a = b
    \/ \E i \in 1..Len(a) :
          /\ DigitVal(a[i]) > DigitVal(b[i])
          /\ \A j \in 1..(i - 1) : a[j] = b[j]

FloatInf == [kind |-> "inf", int |-> <<>>, frac |-> <<>>]

FloatZero == [kind |-> "num", int |-> <<>>, frac |-> <<>>]

\* the float of integer digits int and fraction digits frac
Float(int, frac) ==
    LET i == strip_leading_zeros(int)
    IN  IF \/ Len(i) > MaxFloatDigits
           \/ /\ Len(i) = MaxFloatDigits
              /\ DigitsGeq(SubSeq(i, 1, Len(FloatOverflowFrom)),
                           FloatOverflowFrom)
        THEN FloatInf
        ELSE [kind |-> "num", int |-> i, frac |-> strip_trailing_zeros(frac)]

\* float(s) raises ValueError
ValueError(s) == count(s, ".") > 1 \/ \A i \in 1..Len(s) : s[i] \notin Digit

\* float(s), for s of digits and dots that float() accepts
float(s) ==
    IF count(s, ".") = 0 THEN Float(s, <<>>)
    ELSE LET dot == CHOOSE i \in 1..Len(s) : s[i] = "."
         IN  Float(SubSeq(s, 1, dot - 1), SubSeq(s, dot + 1, Len(s)))

\* x * 10^k
times_power_of_ten(x, k) ==
    IF x.kind = "inf" THEN FloatInf
    ELSE LET f == x.frac \o [i \in 1..k |-> "0"]
         IN  Float(x.int \o SubSeq(f, 1, k), SubSeq(f, k + 1, Len(f)))

\* ScreenReader's NUMBER_SUFFIXES, in the dict's order, with the power of
\* ten of each multiplier
NUMBER_SUFFIXES ==
    <<[suffix |-> WORD_million, power |-> 6],
      [suffix |-> WORD_billion, power |-> 9],
      [suffix |-> WORD_trillion, power |-> 12],
      [suffix |-> WORD_quadrillion, power |-> 15],
      [suffix |-> WORD_milione, power |-> 6],
      [suffix |-> WORD_miliardo, power |-> 9]>>

\* TooltipReader's NUMBER_SUFFIXES
TOOLTIP_NUMBER_SUFFIXES ==
    <<[suffix |-> WORD_million, power |-> 6],
      [suffix |-> WORD_billion, power |-> 9],
      [suffix |-> WORD_trillion, power |-> 12],
      [suffix |-> WORD_quadrillion, power |-> 15],
      [suffix |-> WORD_quintillion, power |-> 18]>>

\* for suffix, mult in table.items(): if suffix in text: ...; break
\* the index of the suffix found, 0 if none
find_suffix(table, text) ==
    LET found == {k \in 1..Len(table) : In(table[k].suffix, text)}
    IN  IF found = {} THEN 0 ELSE SetMin(found)

\* the words parse_number takes out: al secondo, biscotti, cookie, ":", "\n"
NoiseWords ==
    <<WORD_al_secondo, WORD_biscotti, WORD_cookie, <<":">>, <<"\n">>>>

\* the separators of text resolved, lines 283-294 of screen_reader.py
normalize_separators(text) ==
    IF count(text, ".") > 0 /\ count(text, ",") > 0
    THEN replace(replace(text, <<".">>, <<>>), <<",">>, <<".">>)
    ELSE IF count(text, ",") > 0
    THEN replace(text, <<",">>, <<".">>)
    ELSE IF count(text, ".") > 0
    THEN LET dot == CHOOSE i \in 1..Len(text) : text[i] = "."
         IN  IF count(text, ".") = 1 /\ Len(text) - dot = 3
             THEN replace(text, <<".">>, <<>>)
             ELSE text
    ELSE text

\* ScreenReader.parse_number
parse_number(text) ==
    IF text = <<>> THEN FloatZero
    ELSE LET t1 == strip(re_sub_words(NoiseWords, strip(lower(text))))
             k  == find_suffix(NUMBER_SUFFIXES, t1)
             t2 == IF k = 0 THEN t1
                   ELSE strip(replace(t1, NUMBER_SUFFIXES[k].suffix, <<>>))
             t3 == keep_digits_and_dots(normalize_separators(t2))
         IN  IF ValueError(t3) THEN FloatZero
             ELSE times_power_of_ten(float(t3),
                      IF k = 0 THEN 0 ELSE NUMBER_SUFFIXES[k].power)

\* TooltipReader.parse_number
tooltip_parse_number(text) ==
    IF text = <<>> THEN FloatZero
    ELSE LET t1 == replace(strip(lower(text)), <<",">>, <<>>)
             k  == find_suffix(TOOLTIP_NUMBER_SUFFIXES, t1)
             t2 == IF k = 0 THEN t1
                   ELSE strip(replace(t1, TOOLTIP_NUMBER_SUFFIXES[k].suffix,
                                      <<>>))
             t3 == keep_digits_and_dots(t2)
         IN  IF ValueError(t3) THEN FloatZero
             ELSE times_power_of_ten(float(t3),
                      IF k = 0 THEN 0 ELSE TOOLTIP_NUMBER_SUFFIXES[k].power)
----------------------------------------------------------------------------
(* The tooltip data cache. TooltipReader.read_building_data is the hover   *)
(* read of tooltip_reader.py; the cache that calls it, its expiry window   *)
(* and the decision engine's use of its entries are described in sections  *)
(* 4.3 and 4.4 of the specification and modelled from there                *)

\* what the three patterns of _parse_price, _parse_cps_single and
\* _parse_cps_total capture in the OCR text; None where a pattern has no
\* match; capture = FALSE when _capture_tooltip returns None, and there is
\* no text then; a tooltip recognized has its total production read, and
\* its price or its production per unit
TooltipOutcomes ==
    {o \in [capture    : BOOLEAN,
            price      : {<<>>, <<"5", ".", "1", " ">> \o WORD_billion},
            cps_single : {<<>>, <<"0">>, <<"2", "0", "2", "9">>},
            cps_total  : {<<>>, <<"2", "1", "5", "1", "3", "0">>}] :
        /\ ~o.capture => (o.price = <<>> /\ o.cps_single = <<>>)
        /\ o.capture = (o.cps_total # <<>>)
        /\ o.capture => (o.price # <<>> \/ o.cps_single = <<"2", "0", "2", "9">>)}

\* TOOLTIP_WAIT_MS / 1000 = 0.18 s, in tenths of a second rounded up
TOOLTIP_WAIT == 2

\* x > 0 for a float x
Positive(x) == x.kind = "inf" \/ x.int # <<>> \/ x.frac # <<>>

\* self.parse_number on the texts the patterns capture
ParsedTooltipText ==
    [m \in {<<"5", ".", "1", " ">> \o WORD_billion, <<"0">>,
            <<"2", "0", "2", "9">>, <<"2", "1", "5", "1", "3", "0">>} |->
        tooltip_parse_number(m)]

\* _parse_price, _parse_cps_single, _parse_cps_total on what their pattern
\* captured
_parse_match(m) == IF m = <<>> THEN FloatZero ELSE ParsedTooltipText[m]

\* TooltipReader._get_hover_pos(building), for a window 1920 wide at the
\* left edge of the screen
_get_hover_pos(building) == <<1200, building.click_pos[2]>>

\* the result read_building_data starts from
empty_result(building) ==
    [name |-> building.name, price |-> FloatZero, cps_single |-> FloatZero,
     cps_total |-> FloatZero]

\* the calls read_building_data makes on a building with a click
\* coordinate: _ocr_tooltip only on a tooltip captured, and
\* clicker.move_away() before either return
tooltip_steps(captured) ==
    IF captured
    THEN <<"_move_mouse", "sleep", "_capture_tooltip", "_ocr_tooltip",
           "move_away">>
    ELSE <<"_move_mouse", "sleep", "_capture_tooltip", "move_away">>

\* the zero-result variant: a capture that failed reported as one unit at
\* one cookie per second
read_building_data_placeholder(c, building, o, e, t) ==
    LET mv == _move_mouse(c, _get_hover_pos(building), e, t)
        aw == move_away(mv.c, [e EXCEPT !.mv = e.away],
                        mv.end + TOOLTIP_WAIT)
        one == Float(<<"1">>, <<>>)
    IN  [c |-> aw.c, end |-> aw.end,
         steps |-> tooltip_steps(o.capture),
         data |-> IF ~o.capture
                  THEN [empty_result(building) EXCEPT
                           !.price = one, !.cps_single = one]
                  ELSE [name       |-> building.name,
                        price      |-> _parse_match(o.price),
                        cps_single |-> _parse_match(o.cps_single),
                        cps_total  |-> _parse_match(o.cps_total)]]

\* the variant whose early return on a missing tooltip leaves the pointer
\* on the row
read_building_data_stays(c, building, o, e, t) ==
    IF building.click_pos = <<>>
    THEN [c |-> c, end |-> t, steps |-> <<>>,
          data |-> empty_result(building)]
    ELSE LET mv == _move_mouse(c, _get_hover_pos(building), e, t)
             aw == move_away(mv.c, [e EXCEPT !.mv = e.away],
                             mv.end + TOOLTIP_WAIT)
         IN  IF ~o.capture
             THEN [c |-> mv.c, end |-> mv.end + TOOLTIP_WAIT,
                   steps |-> <<"_move_mouse", "sleep", "_capture_tooltip">>,
                   data |-> empty_result(building)]
             ELSE [c |-> aw.c, end |-> aw.end,
                   steps |-> tooltip_steps(TRUE),
                   data |-> [name       |-> building.name,
                             price      |-> _parse_match(o.price),
                             cps_single |-> _parse_match(o.cps_single),
                             cps_total  |-> _parse_match(o.cps_total)]]

\* TooltipReader.read_building_data(building) called at time t with the
\* Clicker in state c: hover, wait, capture, OCR, parse, move away; e.mv
\* is what pyautogui.moveTo does in _move_mouse and e.away what it does in
\* Clicker.move_away; steps lists the calls made, in their order
read_building_data(c, building, o, e, t) ==
    IF building.click_pos = <<>>
    THEN [c |-> c, end |-> t, steps |-> <<>>,
          data |-> empty_result(building)]
    ELSE LET mv == _move_mouse(c, _get_hover_pos(building), e, t)
             aw == move_away(mv.c, [e EXCEPT !.mv = e.away],
                             mv.end + TOOLTIP_WAIT)
         IN  [c |-> aw.c, end |-> aw.end,
              steps |-> tooltip_steps(o.capture),
              data |-> IF ~o.capture THEN empty_result(building)
                       ELSE [name       |-> building.name,
                             price      |-> _parse_match(o.price),
                             cps_single |-> _parse_match(o.cps_single),
                             cps_total  |-> _parse_match(o.cps_total)]]

\* the expiry window of a cache entry: 30 s
CACHE_EXPIRY == 300

\* the entry of name is missing or older than the expiry window at time t
is_stale(cache, name, t) ==
    name \notin DOMAIN cache \/ t > cache[name].timestamp + CACHE_EXPIRY

\* a reading with a positive price and a positive marginal production
\* updates the entry with the current timestamp; any other leaves the cache
\* as it is
store(cache, data, t) ==
    IF Positive(data.price) /\ Positive(data.cps_single)
    THEN [n \in DOMAIN cache \cup {data.name} |->
            IF n = data.name
            THEN [price |-> data.price, cps_single |-> data.cps_single,
                  cps_total |-> data.cps_total, timestamp |-> t]
            ELSE cache[n]]
    ELSE cache

\* the refresh targets: the affordable buildings whose entry is missing or
\* stale; if there is none, the affordable buildings of a speculative pass
refresh_targets(g, cache, speculative, t) ==
    LET affordable == get_affordable_buildings(g)
        stale == SelectSeq(affordable, LAMBDA b : is_stale(cache, b.name, t))
    IN  IF stale # <<>> THEN stale
        ELSE SelectSeq(affordable, LAMBDA b : b.name \in speculative)

\* the hover reads of targets[i..], one after the other
RECURSIVE refresh_from(_, _, _, _, _, _, _)
refresh_from(i, targets, c, cache, outs, e, t) ==
    IF i > Len(targets) THEN [c |-> c, cache |-> cache, end |-> t]
    ELSE LET r == read_building_data(c, targets[i], outs[i], e, t)
         IN  refresh_from(i + 1, targets, r.c, store(cache, r.data, r.end),
                          outs, e, r.end)

\* maybe_refresh(snapshot) called at time t
maybe_refresh(g, c, cache, speculative, outs, e, t) ==
    refresh_from(1, refresh_targets(g, cache, speculative, t), c, cache,
                 outs, e, t)

\* the buildings whose tooltip data the decision engine uses in a cycle
\* that began at time t: those with an entry that was fresh at t or whose
\* refresh was attempted in this cycle
tooltip_used(g, old, cache, attempted, t) ==
    {g.buildings[i].name : i \in 1..Len(g.buildings)}
        \cap {n \in DOMAIN cache : ~is_stale(old, n, t) \/ n \in attempted}

----------------------------------------------------------------------------
(* Specification SpecCache: buy-loop cycles of update(), maybe_refresh and *)
(* the engine's use of the cache, with seconds or half a minute between    *)
(* them                                                                    *)

MaxCacheCycles == 2

\* the shop read: two rows
CacheShopReads ==
    {Ret(read_shop(<<"Cursore", "Nonna">>, <<15, 100>>, <<2, 1>>))}

\* the cookies read: none of the rows, the first, both affordable
CacheScripts ==
    {rd \in Scripts({Ret(0), Ret(50), Ret(200)}, {Ret(1000)}, CacheShopReads,
                    {Ret(read_upgrades(<<>>))}) : rd.upg.st = "ok"}

\* time between two cycles: 2 s, 31 s
CacheSteps == {20, 310}

\* the pointer moves as asked
CacheEnvs == [jitter : {<<5, -3>>}, mv : {"ok"}, away : {"ok"}, ck : {"ok"},
              dm : {1}, ds : {0}]

\* the buildings a speculative pass may read: any of the affordable ones,
\* or none when the interval between passes has not elapsed; no such pass
\* when an entry is missing or stale
SpeculativePasses(g, cache, t) ==
    IF refresh_targets(g, cache, {}, t) # <<>> THEN {{}}
    ELSE LET affordable == get_affordable_buildings(g)
         IN  SUBSET {affordable[i].name : i \in 1..Len(affordable)}

InitCache ==
    /\ now = 1000
    /\ InitGS
    /\ reads = NoReads
    /\ InitStrategy
    /\ InitClicker
    /\ InitLoops

\* one cycle: update(), then maybe_refresh and the lookups of the engine
CacheCycle(rd, dt, e) ==
    /\ update_count < MaxCacheCycles
    /\ \E speculative \in SpeculativePasses(update(GS, rd, now + dt),
                                             tooltip_cache, now + dt) :
       LET t == now + dt
           g == update(GS, rd, t)
           targets == refresh_targets(g, tooltip_cache, speculative, t)
           attempted == {targets[i].name : i \in 1..Len(targets)}
       IN  \E outs \in [1..Len(targets) -> TooltipOutcomes] :
           LET r == maybe_refresh(g, CL, tooltip_cache, speculative, outs, e,
                                  t)
           IN
           /\ SetGS(g)
           /\ reads' = rd
           /\ SetCL(r.c)
           /\ tooltip_cache' = r.cache
           /\ now' = r.end
           /\ query' = [op |-> "maybe_refresh", arg |-> <<t>>,
                        result |->
                          <<[attempted |->
                               [i \in 1..Len(targets) |->
                                  [name |-> targets[i].name,
                                   outcome |-> outs[i]]],
                             used |-> tooltip_used(g, tooltip_cache, r.cache,
                                                   attempted, t)]>>]
    /\ UNCHANGED <<stvars, call, pc, stop_event, wake, iterations, position,
                   wm>>

NextCache ==
    \E rd \in CacheScripts, dt \in CacheSteps, e \in CacheEnvs :
        CacheCycle(rd, dt, e)

SpecCache == InitCache /\ [][NextCache]_vars

\* the hover read with outcome o recognizes no positive price or no
\* positive marginal production
ReadFails(o) ==
    \/ ~o.capture
    \/ o.price = <<>>
    \/ o.cps_single \in {<<>>, <<"0">>}

\* the step is a cycle of maybe_refresh
IsCacheCycle == update_count' = update_count + 1 /\ query'.op = "maybe_refresh"

----------------------------------------------------------------------------
(* Specification SpecTooltip: TooltipReader.read_building_data called on   *)
(* rows with and without a click coordinate, with every outcome of the two *)
(* pointer moves, of the capture and of the recognition                    *)

MaxTooltipClock == 6

\* rows of the shop as read_building_data takes them
TooltipRows ==
    {[name |-> "Cursor", click_pos |-> <<1300, 200>>],
     [name |-> "Nonna", click_pos |-> <<1300, 264>>],
     [name |-> "Fattoria", click_pos |-> <<>>]}

\* what capture and recognition give: no tooltip found, a tooltip whose
\* recognition failed (_ocr_tooltip returned ""), a tooltip whose text
\* matches some or all of the patterns
TooltipReadOutcomes ==
    {o \in [capture    : BOOLEAN,
            price      : {<<>>, <<"5", ".", "1", " ">> \o WORD_billion},
            cps_single : {<<>>, <<"0">>, <<"2", "0", "2", "9">>},
            cps_total  : {<<>>, <<"2", "1", "5", "1", "3", "0">>}] :
        ~o.capture => (o.price = <<>> /\ o.cps_single = <<>>
                       /\ o.cps_total = <<>>)}

TooltipEnvs ==
    [jitter : {<<5, -3>>}, mv : Outcomes, away : Outcomes, ck : {"ok"},
     dm : {1}, ds : {0}]

InitTooltip ==
    /\ now = 1000
    /\ InitGS
    /\ reads = NoReads
    /\ InitStrategy
    /\ InitClicker
    /\ InitLoops

\* tooltip_reader.read_building_data(building)
ReadBuildingData(building, o, e) ==
    LET r == read_building_data(CL, building, o, e, now)
    IN  /\ r.end <= 1000 + MaxTooltipClock
        /\ SetCL(r.c)
        /\ now' = r.end
        /\ query' = [op |-> "read_building_data",
                     arg |-> <<building, o, e>>,
                     result |-> <<r.data, r.steps>>]
        /\ UNCHANGED <<gsvars, stvars, call, pc, stop_event, wake,
                       iterations, position, wm, tooltip_cache>>

NextTooltip ==
    \E building \in TooltipRows, o \in TooltipReadOutcomes,
       e \in TooltipEnvs :
        ReadBuildingData(building, o, e)

SpecTooltip == InitTooltip /\ [][NextTooltip]_vars

\* C34: a read_building_data call on a row with a click coordinate calls
\* _move_mouse, sleep, _capture_tooltip, _ocr_tooltip when a tooltip was
\* captured, and Clicker.move_away last, also when no tooltip is found or
\* the recognition gives no text; when the hover move put the pointer on
\* the row, the pointer is at the neutral corner at the return unless
\* pyautogui.moveTo raised inside move_away; a row without a click
\* coordinate causes no call and no pointer move
C34_TooltipProtocol ==
    [][query'.op = "read_building_data" =>
        LET building == query'.arg[1]
            o == query'.arg[2]
            e == query'.arg[3]
            steps == query'.result[2]
        IN  /\ building.click_pos = <<>> =>
                    (steps = <<>> /\ pointer' = pointer /\ now' = now)
            /\ (building.click_pos # <<>> /\ e.mv = "ok") =>
                    /\ steps \in
                           {<<"_move_mouse", "sleep", "_capture_tooltip",
                              "_ocr_tooltip", "move_away">>,
                            <<"_move_mouse", "sleep", "_capture_tooltip",
                              "move_away">>}
                    /\ (steps[4] = "_ocr_tooltip") = o.capture
                    /\ e.away = "ok" => pointer' = move_away_pos
                    /\ e.away # "ok" =>
                           pointer' = _get_hover_pos(building)
                    /\ now' >= now + TOOLTIP_WAIT]_vars

\* after an earlier call, a call hovered a row, captured a tooltip whose
\* recognition gave no text, and left the pointer at the neutral corner
C34_Witness ==
    /\ query.op = "read_building_data"
    /\ query.arg[1].click_pos # <<>>
    /\ query.arg[3].mv = "ok"
    /\ query.arg[3].away = "ok"
    /\ query.arg[2].capture
    /\ query.arg[2].cps_total = <<>>
    /\ query.arg[2].price = <<>>
    /\ query.arg[2].cps_single = <<>>
    /\ pointer = move_away_pos
    /\ now > 1000 + TOOLTIP_WAIT + 2

----------------------------------------------------------------------------
(* Specification SpecAssembled: the buy loop of main.py with the           *)
(* ScreenReader as written: read_upgrades puts every slot of the strip in  *)
(* its list, populated or not                                              *)

MaxBuyIterations == 3

\* for i in range(8)
UPGRADE_SLOTS == 8

\* a strip reader that lists no slot
read_upgrades_none == <<>>

\* ScreenReader.read_upgrades() as written: the eight fixed positions,
\* with no test of what the screen shows there
read_upgrades_all == read_upgrades([i \in 1..UPGRADE_SLOTS |-> TRUE])

\* rows of the shop, none, one or both within the stock read
AssembledShopReads ==
    {Ret(read_shop(<<"Cursore", "Nonna">>, <<c1, c2>>, <<1, 0>>)) :
        c1 \in {0, 10}, c2 \in {100}}

\* read_upgrades does no screen read and raises only where read_shop has
\* raised before it
AssembledScripts ==
    {rd \in Scripts({Ret(0), Ret(200)}, {Ret(1000)},
                    AssembledShopReads, {Ret(read_upgrades_all)}) :
        rd.upg # Raised}

InitAssembled ==
    /\ now = 1000
    /\ InitGS
    /\ reads = NoReads
    /\ InitStrategy
    /\ InitClicker
    /\ InitLoops

\* one iteration of buy_loop: update(), get_best_purchase, click_buy when
\* there is a decision, time.sleep(interval); FailSafeException leaves the
\* loop
BuyIteration(rd, e) ==
    LET g == update(GS, rd, now)
        d == get_best_purchase(cps_multipliers, g)
        r == IF d = <<>>
             THEN [c |-> CL, result |-> "none", raised |-> "none",
                   end |-> now]
             ELSE click_buy(CL, d[1], e, now)
    IN  /\ update_count < MaxBuyIterations
        /\ call.raised # "failsafe"
        /\ SetGS(g)
        /\ reads' = rd
        /\ decision' = d
        /\ decided' = TRUE
        /\ SetCL(r.c)
        /\ call' = [op |-> "click_buy",
                    name |-> IF d = <<>> THEN "" ELSE d[1].name,
                    start |-> now, result |-> r.result, raised |-> r.raised]
        /\ now' = r.end + Interval["buy"]
        /\ UNCHANGED <<cps_multipliers, lpvars>>

NextAssembled ==
    \E rd \in AssembledScripts, e \in PointerEnvs : BuyIteration(rd, e)

SpecAssembled == InitAssembled /\ [][NextAssembled]_vars

----------------------------------------------------------------------------
(* Specification SpecGap: refreshes 33 s apart in which every rate read    *)
(* that is made returns a positive rate, and the stock read before it      *)
(* returns or raises                                                       *)

MaxGapUpdates == 11

\* the time between two update() calls: 33 s, under 300 / 9 s
GapSteps == {330}

\* the stock read returns or raises; the rate read, when update() comes to
\* it, returns 100.0
GapScripts ==
    {rd \in Scripts({Ret(200)}, {Ret(1000)},
                    {Ret(read_shop(<<"Cursore">>, <<10>>, <<1>>))},
                    {Ret(read_upgrades_all)}) :
        /\ rd.cps # Raised
        /\ rd.shop # Raised
        /\ rd.upg # Raised}

InitGap ==
    /\ now = 1000
    /\ InitGS
    /\ reads = NoReads
    /\ InitStrategy
    /\ InitClicker
    /\ InitLoops

\* game_state.update(), dt after the one before
GapUpdate(rd, dt) ==
    /\ update_count < MaxGapUpdates
    /\ now' = now + dt
    /\ SetGS(update(GS, rd, now + dt))
    /\ reads' = rd
    /\ UNCHANGED <<stvars, clvars, lpvars>>

NextGap == \E rd \in GapScripts, dt \in GapSteps : GapUpdate(rd, dt)

SpecGap == InitGap /\ [][NextGap]_vars

\* C37 as claimed: with every rate read returning a positive rate and
\* refreshes less than 300 / 9 s apart, the history holds at most 10
\* samples, its oldest and newest are less than 5 minutes apart, and
\* is_stalling() with the default threshold is false
C37_StallUnreachable ==
    /\ Len(cps_history) <= HistoryMaxLen
    /\ Len(cps_history) >= 2 =>
            cps_history[Len(cps_history)].t - cps_history[1].t < 5 * 600
    /\ ~is_stalling(GS, 5)

----------------------------------------------------------------------------
(* Specification SpecParse: parse_number of ScreenReader and of            *)
(* TooltipReader called on numbers written with and without separators,    *)
(* with and without a magnitude suffix, and on text that is no number      *)

MaxIntDigits == 3

MaxFracDigits == 4

\* the first n digits of seq repeated without end
Digits(seq, n) == [i \in 1..n |-> seq[((i - 1) % Len(seq)) + 1]]

\* the digits before the first separator: "0", "3", "37", "374"
Heads ==
    {<<"0">>} \cup {Digits(<<"3", "7", "4">>, n) : n \in 1..MaxIntDigits}

\* the digits after the last separator: "9", "96", "961", "9612", and
\* "4", "43", "430", "4300"
Tails ==
    {Digits(<<"9", "6", "1", "2">>, n) : n \in 1..MaxFracDigits}
        \cup {Digits(<<"4", "3", "0", "0">>, n) : n \in 1..MaxFracDigits}

\* groups of three digits
Groups == {<<"9", "6", "1">>, <<"4", "3", "0">>}

\* numbers without a suffix: plain, with one dot, with one comma, with
\* dots before groups of three digits, and with such groups and a comma
SeparatorTexts ==
    Heads
    \cup {h \o <<".">> \o t : h \in Heads, t \in Tails}
    \cup {h \o <<",">> \o t : h \in Heads, t \in Tails}
    \cup {h \o <<".">> \o g \o <<".">> \o g2 :
              h \in Heads, g \in Groups, g2 \in Groups}
    \cup {h \o <<".">> \o g \o <<",">> \o t :
              h \in Heads, g \in Groups, t \in Tails}

\* numbers in canonical decimal form: an integer, or 1 to 3 digits after
\* a "."
CanonicalNumbers ==
    {[int |-> h, frac |-> <<>>] : h \in Heads}
    \cup {[int |-> h, frac |-> t] : h \in Heads, t \in {x \in Tails : Len(x) <= 3}}

CanonicalText(n) ==
    IF n.frac = <<>> THEN n.int ELSE n.int \o <<".">> \o n.frac

\* f"{n} {suffix}" for the suffixes of both tables
SuffixTexts ==
    {CanonicalText(n) \o <<" ">> \o w :
        n \in CanonicalNumbers,
        w \in {WORD_million, WORD_billion, WORD_trillion, WORD_quadrillion,
                WORD_quintillion, WORD_milione, WORD_miliardo}}

Nines(n) == [i \in 1..n |-> "9"]

\* text as OCR can return it: empty, blank, words, stray separators, noise
\* words around a number, upper case, and digits without end
OtherTexts ==
    {<<>>, <<" ">>, <<"a", "b", "c">>, <<".">>, <<",", ",">>,
     <<"1", ".", "2", ".", "3">>, <<"1", ",", "2", ",", "3">>,
     <<"5", ".">>, <<"1", "2", ":", "3", "4">>, <<"5", "\n", "6">>,
     <<"5", "5", ".", "4", "3", "x">>, WORD_million,
     WORD_al_secondo \o <<":", " ", "3", "7", "4", ",", "9", "6", "1">>,
     <<"5", "5", ".", "4", "3", "0", " ">> \o WORD_million \o <<" ">>
         \o WORD_biscotti,
     <<"1", "2", " ", "T">> \o Tail(WORD_trillion),
     <<"1", " ">> \o WORD_million \o <<" ">> \o WORD_billion,
     Nines(MaxFloatDigits - 1), Nines(MaxFloatDigits),
     Nines(MaxFloatDigits - 9) \o <<" ">> \o WORD_quintillion}

ParseInputs == SeparatorTexts \cup SuffixTexts \cup OtherTexts

InitParse ==
    /\ now = 1000
    /\ InitGS
    /\ reads = NoReads
    /\ InitStrategy
    /\ InitClicker
    /\ InitLoops

\* ScreenReader.parse_number(text); the function keeps no state, so a run
\* makes one call
ParseNumber(text) ==
    /\ query = NoQuery
    /\ query' = [op |-> "parse_number", arg |-> <<text>>,
                 result |-> <<parse_number(text)>>]
    /\ UNCHANGED <<now, gsvars, stvars, clvars, pc, stop_event, wake,
                   iterations, position, wm,
                   tooltip_cache>>

\* TooltipReader.parse_number(text), likewise
TooltipParseNumber(text) ==
    /\ query = NoQuery
    /\ query' = [op |-> "tooltip_parse_number", arg |-> <<text>>,
                 result |-> <<tooltip_parse_number(text)>>]
    /\ UNCHANGED <<now, gsvars, stvars, clvars, pc, stop_event, wake,
                   iterations, position, wm,
                   tooltip_cache>>

NextParse ==
    \/ \E text \in ParseInputs : ParseNumber(text)
    \/ \E text \in ParseInputs : TooltipParseNumber(text)

SpecParse == InitParse /\ [][NextParse]_vars

\* exactly three digits follow the character at index i of text
ThreeDigitsFollow(text, i) ==
    /\ i + 3 <= Len(text)
    /\ \A j \in (i + 1)..(i + 3) : text[j] \in Digit
    /\ i + 3 < Len(text) => text[i + 4] \notin Digit

Dots(text) == {i \in 1..Len(text) : text[i] = "."}

\* C26: on a number without suffix, ScreenReader.parse_number drops the
\* dots and reads the comma as decimal point if both occur; reads a comma
\* alone as decimal point; reads dots alone as thousands separators if
\* exactly three digits follow each of them, and one dot as decimal point
\* otherwise.
C26_SeparatorResolution ==
    (query.op = "parse_number" /\ query.arg[1] \in SeparatorTexts)
        => LET text == query.arg[1]
           IN  query.result[1] =
                 IF Dots(text) # {} /\ count(text, ",") > 0
                 THEN float(replace(replace(text, <<".">>, <<>>),
                                    <<",">>, <<".">>))
                 ELSE IF count(text, ",") > 0
                 THEN float(replace(text, <<",">>, <<".">>))
                 ELSE IF /\ Dots(text) # {}
                         /\ \A i \in Dots(text) : ThreeDigitsFollow(text, i)
                 THEN float(replace(text, <<".">>, <<>>))
                 ELSE float(text)

\* C27: parse_number of ScreenReader and of TooltipReader return a finite
\* number for every text.
C27_Total ==
    query.op \in {"parse_number", "tooltip_parse_number"}
        => query.result[1].kind = "num"

\* C28: for every suffix from million to quintillion and every n in
\* canonical decimal form, ScreenReader.parse_number(f"{n} {suffix}") is n
\* times the suffix's multiplier.
C28_SuffixRoundTrip ==
    LET powers == <<[suffix |-> WORD_million, power |-> 6],
                    [suffix |-> WORD_billion, power |-> 9],
                    [suffix |-> WORD_trillion, power |-> 12],
                    [suffix |-> WORD_quadrillion, power |-> 15],
                    [suffix |-> WORD_quintillion, power |-> 18]>>
    IN  query.op = "parse_number"
          => \A n \in CanonicalNumbers, k \in 1..Len(powers) :
                query.arg[1] = CanonicalText(n) \o <<" ">> \o powers[k].suffix
                  => query.result[1] =
                       times_power_of_ten(Float(n.int, n.frac), powers[k].power)

\* C39 as claimed: ScreenReader.parse_number and TooltipReader.parse_number
\* return the same value for every text made of digits, ".", ",", spaces
\* and a magnitude suffix.
C39_OneNormalizer ==
    query.arg # <<>> /\ query.arg[1] \in SeparatorTexts \cup SuffixTexts
        => /\ query.op = "parse_number"
                => query.result[1] = tooltip_parse_number(query.arg[1])
           /\ query.op = "tooltip_parse_number"
                => query.result[1] = parse_number(query.arg[1])

=============================================================================
